---- MODULE Spec2Model ----
(***************************************************************************)
(* Model of time_tracker.py: the monthly projection engine of the         *)
(* freelance time tracker (work-day calendar, client hour limits,          *)
(* monthly statistics, cumulative target/actual series).                   *)
(*                                                                         *)
(* Money and hours are exact numbers here: amounts are integers and the    *)
(* daily target is a rational <<numerator, denominator>>.  Binary floating *)
(* point rounding of the Python floats is outside the model.               *)
(***************************************************************************)
EXTENDS Integers, Sequences, FiniteSets, TLC

VARIABLES
    clients,            \* clients_df: the loaded client roster (sequence of rows)
    time_entries,       \* time_entries_df: the loaded time-entry log
    invoices,           \* invoices_df: the loaded invoice log
    settings,           \* settings: monthly_target and the work_days string
    non_work_days,      \* non_work_days_df: rows of (date, reason)
    today,              \* datetime.now().date()
    selected_year,      \* the page's year selectbox
    selected_month,     \* the page's month selectbox
    work_days_count,    \* calendar page: get_work_days_in_month(...) shown
    stats,              \* result of calculate_monthly_stats
    pc,                 \* position of the page being rendered
    day,                \* loop variable of the projection loop
    cumulative_target,  \* running target of the projection loop
    cumulative_actual,  \* running actual of the projection loop
    dates,              \* x values appended by the projection loop
    targets,            \* cumulative targets appended by the loop
    actuals,            \* cumulative actuals appended by the loop
    hours_call,         \* last call of calculate_client_hours: arguments, result
    work_day_call,      \* last call of is_work_day: date, result
    scenario_entries,   \* st.session_state.scenario_entries
    limit_data,         \* hour-limit report of the page, one row per client
    breakdown,          \* dashboard: monthly breakdown by client and its total
    adding_non_work,    \* dates with an 'adding_non_work_<date>' session key
    settings_inputs     \* settings page: the number input and the multiselect

vars == <<clients, time_entries, invoices, settings, non_work_days, today,
          selected_year, selected_month, work_days_count, stats, pc, day,
          cumulative_target, cumulative_actual, dates, targets, actuals,
          hours_call, work_day_call, scenario_entries, limit_data, breakdown,
          adding_non_work, settings_inputs>>

----------------------------------------------------------------------------
(* Dates: datetime / date / pd.Timestamp at midnight.  Every date the      *)
(* program stores comes from st.date_input or from a date-only CSV cell,   *)
(* so no value carries a time of day.                                      *)

Date(y, m, d) == [year |-> y, month |-> m, day |-> d]

\* date comparison: Python compares (year, month, day)
DateLT(a, b) ==
    \/ a.year < b.year
    \/ a.year = b.year /\ a.month < b.month
    \/ a.year = b.year /\ a.month = b.month /\ a.day < b.day

DateLE(a, b) == a = b \/ DateLT(a, b)

IsLeap(y) == y % 4 = 0 /\ (y % 100 # 0 \/ y % 400 = 0)

\* calendar.monthrange(year, month)[1]
monthrange(y, m) ==
    IF m = 2 THEN (IF IsLeap(y) THEN 29 ELSE 28)
    ELSE IF m \in {4, 6, 9, 11} THEN 30 ELSE 31

DaysBeforeYear(y) ==
    LET p == y - 1 IN p * 365 + (p \div 4) - (p \div 100) + (p \div 400)

\* days of the year before the first of month m
DaysBeforeMonth(y, m) ==
    <<0, 31, 59, 90, 120, 151, 181, 212, 243, 273, 304, 334>>[m]
        + (IF m > 2 /\ IsLeap(y) THEN 1 ELSE 0)

\* date.toordinal(): 0001-01-01 is day 1
toordinal(d) == DaysBeforeYear(d.year) + DaysBeforeMonth(d.year, d.month) + d.day

\* date.weekday(): Monday is 0
weekday(d) == (toordinal(d) + 6) % 7

\* calendar.day_name
day_name ==
    <<"Monday", "Tuesday", "Wednesday", "Thursday", "Friday", "Saturday", "Sunday">>

\* settings['work_days'].split(','): the stored string is ','.join(work_days),
\* kept here as the sequence of joined names; ''.split(',') is [''].
split_work_days(s) == IF s = <<>> THEN <<"">> ELSE s

----------------------------------------------------------------------------
(* Calendar oracle                                                         *)

\* x in list
contains(list, x) == \E i \in DOMAIN list : list[i] = x

\* is_work_day by the weekly pattern alone
is_work_day_pattern_only(date, work_days_list, non_work_days_df) ==
    contains(work_days_list, day_name[weekday(date) + 1])

is_work_day(date, work_days_list, non_work_days_df) ==
    IF ~contains(work_days_list, day_name[weekday(date) + 1])
    THEN FALSE
    ELSE IF /\ non_work_days_df # <<>>
            /\ \E i \in DOMAIN non_work_days_df : non_work_days_df[i].date = date
    THEN FALSE
    ELSE TRUE

\* the for loop of get_work_days_in_month, from `d` to `last`
RECURSIVE work_days_loop(_, _, _, _, _, _, _)
work_days_loop(year, month, d, last, work_day_names, non_work_days_df, work_days_count_) ==
    IF d > last THEN work_days_count_
    ELSE work_days_loop(year, month, d + 1, last, work_day_names, non_work_days_df,
            IF is_work_day(Date(year, month, d), work_day_names, non_work_days_df)
            THEN work_days_count_ + 1 ELSE work_days_count_)

get_work_days_in_month_skip_last(year, month, work_days, non_work_days_df) ==
    work_days_loop(year, month, 1, monthrange(year, month) - 1, work_days,
                   non_work_days_df, 0)

get_work_days_in_month(year, month, work_days, non_work_days_df) ==
    work_days_loop(year, month, 1, monthrange(year, month), work_days,
                   non_work_days_df, 0)

----------------------------------------------------------------------------
(* Cell values of a loaded DataFrame row.  A text cell is a string; a      *)
(* blank CSV cell is read back as the float NaN; a column that load_clients *)
(* adds for an old file holds Python None.  A text cell that holds a date  *)
(* written with strftime('%Y-%m-%d') carries that date.                    *)

None == [tag |-> "None", text |-> "", date |-> <<>>]
NaN == [tag |-> "NaN", text |-> "", date |-> <<>>]
Str(s) == [tag |-> "str", text |-> s, date |-> <<>>]
DateStr(d) == [tag |-> "str", text |-> "%Y-%m-%d", date |-> <<d>>]

\* pd.isna(x)
isna(x) == x.tag \in {"None", "NaN"}

\* bool(x), the test of `if contract_start_date:`; bool(float('nan')) is True
truthy(x) ==
    IF x.tag = "None" THEN FALSE
    ELSE IF x.tag = "NaN" THEN TRUE
    ELSE x.text # ""

\* pd.to_datetime(x): NaT (value <<>>) for a missing value, the date of a date
\* string, and an exception for any other text
to_datetime(x) ==
    IF isna(x) \/ x.text = "" THEN [raises |-> FALSE, value |-> <<>>]
    ELSE IF x.date # <<>> THEN [raises |-> FALSE, value |-> x.date]
    ELSE [raises |-> TRUE, value |-> <<>>]

----------------------------------------------------------------------------
(* Client hour-limit calculator                                            *)

Return(v) == [raised |-> FALSE, value |-> v]
Raise == [raised |-> TRUE, value |-> 0]

\* df[mask], the rows of df that satisfy a test, in order, is SelectSeq.

\* df['hours'].sum()
RECURSIVE sum_hours(_)
sum_hours(df) == IF df = <<>> THEN 0 ELSE Head(df).hours + sum_hours(Tail(df))

\* monthly_hours without the upper bound of the month
monthly_hours_open_end(client_entries, year, month) ==
    LET y == IF year = <<>> \/ month = <<>> THEN today.year ELSE year[1]
        m == IF year = <<>> \/ month = <<>> THEN today.month ELSE month[1]
        InMonth(e) == DateLE(Date(y, m, 1), e.date)
    IN  sum_hours(SelectSeq(client_entries, InMonth))

\* monthly_hours that takes the current month whatever year and month are given
monthly_hours_this_month(client_entries, year, month) ==
    LET month_start == Date(today.year, today.month, 1)
        month_end == Date(today.year, today.month, monthrange(today.year, today.month))
        InMonth(e) == DateLE(month_start, e.date) /\ DateLE(e.date, month_end)
    IN  sum_hours(SelectSeq(client_entries, InMonth))

\* the Monthly calculation: year/month default to datetime.now()
monthly_hours(client_entries, year, month) ==
    LET y == IF year = <<>> \/ month = <<>> THEN today.year ELSE year[1]
        m == IF year = <<>> \/ month = <<>> THEN today.month ELSE month[1]
        month_start == Date(y, m, 1)
        month_end == Date(y, m, monthrange(y, m))
        InMonth(e) == DateLE(month_start, e.date) /\ DateLE(e.date, month_end)
    IN  sum_hours(SelectSeq(client_entries, InMonth))

\* the fallback with every entry of the client counted
fallback_hours_all(client_entries, year, month) == sum_hours(client_entries)

\* "Default fallback to monthly if unknown limit type": the same computation
\* again, at the end of calculate_client_hours
fallback_hours(client_entries, year, month) ==
    LET y == IF year = <<>> \/ month = <<>> THEN today.year ELSE year[1]
        m == IF year = <<>> \/ month = <<>> THEN today.month ELSE month[1]
        month_start == Date(y, m, 1)
        month_end == Date(y, m, monthrange(y, m))
        InMonth(e) == DateLE(month_start, e.date) /\ DateLE(e.date, month_end)
    IN  sum_hours(SelectSeq(client_entries, InMonth))

\* series > start_date: the start day itself left out
gt_timestamp(date, start) == start # <<>> /\ DateLT(start[1], date)

\* series >= start_date, elementwise; every comparison with NaT is False
ge_timestamp(date, start) == start # <<>> /\ DateLE(start[1], date)

\* the Contract Total branch without its try/except
contract_total_hours_no_except(client_entries, contract_start_date) ==
    IF truthy(contract_start_date)
    THEN LET parsed == to_datetime(contract_start_date)
             SinceStart(e) == ge_timestamp(e.date, parsed.value)
         IN  IF parsed.raises THEN Raise
             ELSE Return(sum_hours(SelectSeq(client_entries, SinceStart)))
    ELSE Return(sum_hours(client_entries))

\* the Contract Total branch: hours since the contract start
contract_total_hours(client_entries, contract_start_date) ==
    IF truthy(contract_start_date)
    THEN LET parsed == to_datetime(contract_start_date)
             SinceStart(e) == ge_timestamp(e.date, parsed.value)
         IN  IF parsed.raises
             THEN Return(sum_hours(client_entries))      \* except:
             ELSE Return(sum_hours(SelectSeq(client_entries, SinceStart)))
    ELSE Return(sum_hours(client_entries))

calculate_client_hours(client_name, time_entries_df, limit_type, contract_start_date, year, month) ==
    IF time_entries_df = <<>> THEN Return(0)
    ELSE
    LET OfClient(e) == e.client_name = client_name
        client_entries == SelectSeq(time_entries_df, OfClient)
        limit_type_ ==
            IF isna(limit_type) \/ limit_type = Str("None") \/ limit_type = Str("")
            THEN Str("Monthly") ELSE limit_type
    IN  IF client_entries = <<>> THEN Return(0)
        ELSE IF limit_type_ = Str("Monthly")
        THEN Return(monthly_hours(client_entries, year, month))
        ELSE IF limit_type_ = Str("Contract Total")
        THEN contract_total_hours(client_entries, contract_start_date)
        ELSE Return(fallback_hours(client_entries, year, month))

----------------------------------------------------------------------------
(* Exact fractions <<numerator, denominator>> in lowest terms, for the     *)
(* true divisions of calculate_monthly_stats.                              *)

RECURSIVE GCD(_, _)
GCD(a, b) == IF b = 0 THEN a ELSE GCD(b, a % b)

Rat(n, d) == IF n = 0 THEN <<0, 1>> ELSE LET g == GCD(n, d) IN <<n \div g, d \div g>>
RatAdd(a, b) == Rat(a[1] * b[2] + b[1] * a[2], a[2] * b[2])
RatTimes(a, k) == Rat(a[1] * k, a[2])
RatDiv(a, b) == Rat(a[1] * b[2], a[2] * b[1])
RatLE(a, b) == a[1] * b[2] <= b[1] * a[2]

----------------------------------------------------------------------------
(* Monthly stats engine                                                    *)

\* the join with how='left': a row without a match is kept, its rate missing
\* (skipped by the sums, 0 here)
RECURSIVE merge_left(_, _)
merge_left(left, right) ==
    IF left = <<>> THEN <<>>
    ELSE LET e == Head(left)
             SameName(c) == c.client_name = e.client_name
             matches == SelectSeq(right, SameName)
         IN  (IF matches = <<>>
              THEN <<[date |-> e.date, client_name |-> e.client_name,
                      hours |-> e.hours, hourly_rate |-> 0]>>
              ELSE [i \in 1..Len(matches) |->
                      [date |-> e.date, client_name |-> e.client_name,
                       hours |-> e.hours, hourly_rate |-> matches[i].hourly_rate]])
             \o merge_left(Tail(left), right)

\* left.merge(right[['client_name', 'hourly_rate']], on='client_name', how='inner')
RECURSIVE merge(_, _)
merge(left, right) ==
    IF left = <<>> THEN <<>>
    ELSE LET e == Head(left)
             SameName(c) == c.client_name = e.client_name
             matches == SelectSeq(right, SameName)
         IN  [i \in 1..Len(matches) |->
                 [date |-> e.date, client_name |-> e.client_name,
                  hours |-> e.hours, hourly_rate |-> matches[i].hourly_rate]]
             \o merge(Tail(left), right)

\* (merged['hours'] * merged['hourly_rate']).sum()
RECURSIVE sum_billable(_)
sum_billable(df) ==
    IF df = <<>> THEN 0
    ELSE Head(df).hours * Head(df).hourly_rate + sum_billable(Tail(df))

\* df['amount'].iloc[0]: the first amount in place of the sum
sum_amount_first(df) == IF df = <<>> THEN 0 ELSE Head(df).amount

\* df['amount'].sum()
RECURSIVE sum_amount(_)
sum_amount(df) == IF df = <<>> THEN 0 ELSE Head(df).amount + sum_amount(Tail(df))

\* df['hourly_rate'].sum(), the numerator of .mean()
RECURSIVE sum_rate(_)
sum_rate(df) == IF df = <<>> THEN 0 ELSE Head(df).hourly_rate + sum_rate(Tail(df))

\* a filter that lets every billing type through
IsAnyBillingType(c) == c.billing_type \in {"Hourly", "Retainer/Flat Fee"}

\* clients_df[clients_df['billing_type'] == 'Hourly']
IsHourly(c) == c.billing_type = "Hourly"

\* the days-worked loop that counts every day up to today, work day or not
RECURSIVE days_worked_loop_every_day(_, _, _, _, _, _, _)
days_worked_loop_every_day(year, month, d, stop, work_days_list, non_work_days_df, days_worked) ==
    IF d >= stop THEN days_worked
    ELSE days_worked_loop_every_day(year, month, d + 1, stop, work_days_list,
            non_work_days_df,
            IF DateLE(Date(year, month, d), today)
            THEN days_worked + 1 ELSE days_worked)

\* the days-worked loop of calculate_monthly_stats, from `d` to `stop` - 1
RECURSIVE days_worked_loop(_, _, _, _, _, _, _)
days_worked_loop(year, month, d, stop, work_days_list, non_work_days_df, days_worked) ==
    IF d >= stop THEN days_worked
    ELSE days_worked_loop(year, month, d + 1, stop, work_days_list, non_work_days_df,
            IF /\ is_work_day(Date(year, month, d), work_days_list, non_work_days_df)
               /\ DateLE(Date(year, month, d), today)
            THEN days_worked + 1 ELSE days_worked)

Min(a, b) == IF a <= b THEN a ELSE b

\* the division without its guard: x / 0 is the pair <<1, 0>>, no number
daily_target_unguarded(monthly_target, total_work_days) ==
    Rat(monthly_target, total_work_days)

\* settings['monthly_target'] / total_work_days if total_work_days > 0 else 0
daily_target_of(monthly_target, total_work_days) ==
    IF total_work_days > 0 THEN Rat(monthly_target, total_work_days) ELSE <<0, 1>>

IsActiveHourly(c) == c.billing_type = "Hourly" /\ c.active

\* the mean rate of the active Hourly clients alone
avg_hourly_rate_active(clients_df) ==
    LET hourly_clients == SelectSeq(clients_df, IsActiveHourly)
    IN  IF clients_df # <<>> /\ hourly_clients # <<>>
        THEN Rat(sum_rate(hourly_clients), Len(hourly_clients)) ELSE <<0, 1>>

\* hourly_clients['hourly_rate'].mean(), 0 without clients or Hourly clients
avg_hourly_rate_of(clients_df) ==
    LET hourly_clients == SelectSeq(clients_df, IsHourly)
    IN  IF clients_df # <<>> /\ hourly_clients # <<>>
        THEN Rat(sum_rate(hourly_clients), Len(hourly_clients)) ELSE <<0, 1>>

\* daily_target / avg_hourly_rate if avg_hourly_rate > 0 else 0
daily_hours_target_of(daily_target, avg_hourly_rate) ==
    IF avg_hourly_rate[1] > 0 THEN RatDiv(daily_target, avg_hourly_rate) ELSE <<0, 1>>

calculate_monthly_stats(year, month, clients_df, time_entries_df, invoices_df, settings_, non_work_days_df) ==
    LET month_start == Date(year, month, 1)
        month_end == Date(year, month, monthrange(year, month))
        InMonth(r) == DateLE(month_start, r.date) /\ DateLE(r.date, month_end)
        monthly_entries ==
            IF time_entries_df # <<>> THEN SelectSeq(time_entries_df, InMonth) ELSE <<>>
        monthly_invoices ==
            IF invoices_df # <<>> THEN SelectSeq(invoices_df, InMonth) ELSE <<>>
        hourly_clients == SelectSeq(clients_df, IsHourly)
        merged ==
            IF monthly_entries # <<>> /\ clients_df # <<>> /\ hourly_clients # <<>>
            THEN merge(monthly_entries, hourly_clients) ELSE <<>>
        hourly_total == IF merged # <<>> THEN sum_billable(merged) ELSE 0
        total_hours == IF merged # <<>> THEN sum_hours(merged) ELSE 0
        retainer_total ==
            IF monthly_invoices # <<>> THEN sum_amount(monthly_invoices) ELSE 0
        total_income == hourly_total + retainer_total
        work_days_list == split_work_days(settings_.work_days)
        total_work_days ==
            get_work_days_in_month(year, month, work_days_list, non_work_days_df)
        days_worked ==
            days_worked_loop(year, month, 1,
                             Min(today.day + 1, monthrange(year, month) + 1),
                             work_days_list, non_work_days_df, 0)
        daily_target == daily_target_of(settings_.monthly_target, total_work_days)
        target_so_far == RatTimes(daily_target, days_worked)
        avg_hourly_rate == avg_hourly_rate_of(clients_df)
        daily_hours_target == daily_hours_target_of(daily_target, avg_hourly_rate)
    IN  [total_income |-> total_income,
         hourly_income |-> hourly_total,
         retainer_income |-> retainer_total,
         monthly_target |-> settings_.monthly_target,
         target_so_far |-> target_so_far,
         daily_target |-> daily_target,
         daily_hours_target |-> daily_hours_target,
         total_work_days |-> total_work_days,
         days_worked |-> days_worked,
         total_hours |-> total_hours,
         avg_hourly_rate |-> avg_hourly_rate]

----------------------------------------------------------------------------
(* Cumulative projection: the body of the day loop of show_dashboard       *)

\* daily_income over the entries dated up to `date`, not on it
daily_income_up_to(entries_df, clients_df, date) ==
    LET UpTo(e) == DateLE(e.date, date)
        daily_entries == SelectSeq(entries_df, UpTo)
        hourly_clients == SelectSeq(clients_df, IsHourly)
        merged == merge(daily_entries, hourly_clients)
    IN  IF /\ entries_df # <<>> /\ clients_df # <<>>
           /\ daily_entries # <<>> /\ hourly_clients # <<>> /\ merged # <<>>
        THEN sum_billable(merged) ELSE 0

\* hourly income of the entries dated `date`, joined to the Hourly clients
daily_income(entries_df, clients_df, date) ==
    LET OnDate(e) == e.date = date
        daily_entries == SelectSeq(entries_df, OnDate)
        hourly_clients == SelectSeq(clients_df, IsHourly)
        merged == merge(daily_entries, hourly_clients)
    IN  IF /\ entries_df # <<>> /\ clients_df # <<>>
           /\ daily_entries # <<>> /\ hourly_clients # <<>> /\ merged # <<>>
        THEN sum_billable(merged) ELSE 0

\* the invoice amounts dated `date`
daily_invoice_total(invoices_df, date) ==
    LET OnDate(r) == r.date = date
        daily_invoices == SelectSeq(invoices_df, OnDate)
    IN  IF invoices_df # <<>> /\ daily_invoices # <<>>
        THEN sum_amount(daily_invoices) ELSE 0

\* next_target that looks at the weekly pattern alone
next_target_ignoring_holidays(running, date, daily_target, work_days_list, non_work_days_df) ==
    IF is_work_day(date, work_days_list, <<>>)
    THEN RatAdd(running, daily_target) ELSE running

\* cumulative_target after the day's `if is_work_day(...)`
next_target(running, date, daily_target, work_days_list, non_work_days_df) ==
    IF is_work_day(date, work_days_list, non_work_days_df)
    THEN RatAdd(running, daily_target) ELSE running

----------------------------------------------------------------------------
(* Scenario planning: the entries the page computes on                     *)

\* the scenario entries alone
combined_entries_scenario_only(time_entries_df, scenario_entries_) == scenario_entries_

\* the real entries alone
combined_entries_real_only(time_entries_df, scenario_entries_) == time_entries_df

\* pd.concat([time_entries_df, pd.DataFrame(scenario_entries)], ignore_index=True)
\* if scenario_entries else time_entries_df
combined_entries(time_entries_df, scenario_entries_) ==
    IF scenario_entries_ # <<>> THEN time_entries_df \o scenario_entries_
    ELSE time_entries_df

\* a filter that takes the limit value for the flag
HasLimitByValue(c) == c.hour_limit > 0 /\ c.active

\* clients_df[(clients_df['has_hour_limit'] == True) & (clients_df['active'] == True)]
HasLimit(c) == c.has_hour_limit /\ c.active

\* (hours_used / hour_limit * 100) if hour_limit > 0 else 0, as an exact fraction
percentage_used_of(hours_used, hour_limit) ==
    IF hour_limit > 0 THEN RatTimes(Rat(hours_used, hour_limit), 100) ELSE <<0, 1>>

\* a status whose thresholds are strict
limit_status_strict(percentage_used) ==
    IF ~RatLE(percentage_used, <<90, 1>>) THEN "Critical"
    ELSE IF ~RatLE(percentage_used, <<75, 1>>) THEN "Warning"
    ELSE "Good"

\* if percentage_used >= 90 ... elif percentage_used >= 75 ... else
limit_status(percentage_used) ==
    IF RatLE(<<90, 1>>, percentage_used) THEN "Critical"
    ELSE IF RatLE(<<75, 1>>, percentage_used) THEN "Warning"
    ELSE "Good"

\* the loop over clients_with_limits: one row per active client with an hour
\* limit, with the hours used that calculate_client_hours returns on
\* `entries_df`, the hours remaining, the usage and the status
hour_limit_report(clients_df, entries_df, year, month) ==
    IF clients_df = <<>> THEN <<>>
    ELSE LET clients_with_limits == SelectSeq(clients_df, HasLimit)
         IN  [i \in 1..Len(clients_with_limits) |->
                LET client == clients_with_limits[i]
                    hours_used ==
                        calculate_client_hours(client.client_name, entries_df,
                            client.limit_type, client.contract_start_date,
                            <<year>>, <<month>>)
                    percentage_used ==
                        percentage_used_of(hours_used.value, client.hour_limit)
                IN  [client_name |-> client.client_name,
                     hours_used |-> hours_used,
                     hours_remaining |-> client.hour_limit - hours_used.value,
                     percentage_used |-> percentage_used,
                     status |-> limit_status(percentage_used)]]

\* the client names of the input universes in sorted order: groupby returns
\* its groups sorted by key
ClientNames == <<"Acme", "Beta", "Ghost">>

\* df[column].sum()
RECURSIVE sum_column(_, _)
sum_column(df, column) ==
    IF df = <<>> THEN 0 ELSE Head(df)[column] + sum_column(Tail(df), column)

\* df.groupby('client_name')[column].first(): the first value of each group
groupby_first(df, column) ==
    LET Present(name) == \E i \in DOMAIN df : df[i].client_name = name
        keys == SelectSeq(ClientNames, Present)
    IN  [k \in 1..Len(keys) |->
            LET OfKey(e) == e.client_name = keys[k]
            IN  [client_name |-> keys[k],
                 total |-> Head(SelectSeq(df, OfKey))[column]]]

\* df.groupby('client_name')[column].sum().reset_index()
groupby_sum(df, column) ==
    LET Present(name) == \E i \in DOMAIN df : df[i].client_name = name
        keys == SelectSeq(ClientNames, Present)
    IN  [k \in 1..Len(keys) |->
            LET OfKey(e) == e.client_name = keys[k]
            IN  [client_name |-> keys[k],
                 total |-> sum_column(SelectSeq(df, OfKey), column)]]

\* hourly_breakdown.merge(hourly_clients[['client_name', 'hourly_rate']],
\* on='client_name', how='inner') and the rows appended for it
RECURSIVE hourly_breakdown_rows(_, _)
hourly_breakdown_rows(hourly_breakdown, hourly_clients) ==
    IF hourly_breakdown = <<>> THEN <<>>
    ELSE LET g == Head(hourly_breakdown)
             SameName(c) == c.client_name = g.client_name
             matches == SelectSeq(hourly_clients, SameName)
         IN  [i \in 1..Len(matches) |->
                 [client_name |-> g.client_name, billing_type |-> "Hourly",
                  hours |-> g.total, hourly_rate |-> matches[i].hourly_rate,
                  total_invoice |-> g.total * matches[i].hourly_rate]]
             \o hourly_breakdown_rows(Tail(hourly_breakdown), hourly_clients)

\* the "Monthly Breakdown by Client" of the dashboard: the rows of the Hourly
\* clients, the rows of the invoices, and the TOTAL INVOICE line when there is
\* any row
monthly_breakdown(clients_df, time_entries_df, invoices_df, year, month) ==
    LET month_start == Date(year, month, 1)
        month_end == Date(year, month, monthrange(year, month))
        InMonth(r) == DateLE(month_start, r.date) /\ DateLE(r.date, month_end)
        monthly_entries ==
            IF time_entries_df # <<>> THEN SelectSeq(time_entries_df, InMonth) ELSE <<>>
        hourly_clients == SelectSeq(clients_df, IsHourly)
        hourly_rows ==
            IF monthly_entries # <<>> /\ clients_df # <<>> /\ hourly_clients # <<>>
            THEN hourly_breakdown_rows(groupby_sum(monthly_entries, "hours"),
                                       hourly_clients)
            ELSE <<>>
        monthly_invoices ==
            IF invoices_df # <<>> THEN SelectSeq(invoices_df, InMonth) ELSE <<>>
        retainer_breakdown ==
            IF monthly_invoices # <<>> THEN groupby_sum(monthly_invoices, "amount")
            ELSE <<>>
        retainer_rows ==
            [i \in 1..Len(retainer_breakdown) |->
                [client_name |-> retainer_breakdown[i].client_name,
                 billing_type |-> "Retainer/Flat Fee", hours |-> 0, hourly_rate |-> 0,
                 total_invoice |-> retainer_breakdown[i].total]]
        breakdown_data == hourly_rows \o retainer_rows
    IN  [shown |-> breakdown_data # <<>>,
         rows |-> breakdown_data,
         total_invoice |-> sum_column(breakdown_data, "total_invoice")]

----------------------------------------------------------------------------
(* Bounds and input universes                                              *)

MaxEntries == 2        \* time entries in the log of the hour-limit runs
MaxRecords == 2        \* time entries plus invoices of the dashboard runs
MaxNonWorkDays == 2    \* rows of the non-work-day list
MaxScenario == 2       \* entries of the scenario list
MaxClients == 2        \* rows of the roster of the client-management runs
MaxPending == 2        \* reason forms open at once on the calendar page

FirstYear == 2023      \* st.selectbox("Year", range(2023, 2030))
LastYear == 2029

SeqsUpTo(S, n) == UNION {[1..k -> S] : k \in 0..n}

Client(name, billing, rate) ==
    [client_name |-> name, hourly_rate |-> rate, billing_type |-> billing,
     active |-> TRUE, has_hour_limit |-> FALSE, limit_type |-> Str("None"),
     hour_limit |-> 0, contract_start_date |-> DateStr(Date(2024, 1, 1))]

Entry(d, name, h) == [date |-> d, client_name |-> name, hours |-> h]
Invoice(d, name, a) == [date |-> d, client_name |-> name, amount |-> a]
NonWorkDay(d) == [date |-> d, reason |-> "Holiday"]
Settings(target, days) == [monthly_target |-> target, work_days |-> days]

Weekdays == <<"Monday", "Tuesday", "Wednesday", "Thursday", "Friday">>

Rosters ==
    { <<>>,
      <<Client("Acme", "Hourly", 100), Client("Beta", "Retainer/Flat Fee", 0)>>,
      <<Client("Acme", "Hourly", 100), Client("Beta", "Hourly", 150)>> }

\* entries around the month ends of February and March 2024; "Ghost" is in no roster
DashEntries ==
    { Entry(Date(2024, 2, 29), "Acme", 4), Entry(Date(2024, 3, 1), "Acme", 5),
      Entry(Date(2024, 3, 15), "Acme", 3), Entry(Date(2024, 3, 31), "Beta", 2),
      Entry(Date(2024, 3, 15), "Ghost", 7) }

DashInvoices ==
    { Invoice(Date(2024, 3, 1), "Beta", 500), Invoice(Date(2024, 2, 29), "Ghost", 120) }

DashLogs ==
    {l \in SeqsUpTo(DashEntries, MaxRecords) \X SeqsUpTo(DashInvoices, MaxRecords) :
        Len(l[1]) + Len(l[2]) <= MaxRecords}

\* <<settings, non-work days>>
DashCalendars ==
    { <<Settings(8000, Weekdays), <<>> >>,
      <<Settings(8000, Weekdays), <<NonWorkDay(Date(2024, 3, 1))>> >>,
      <<Settings(6000, <<"Saturday", "Sunday">>), <<>> >> }

\* an empty stats record, before any page has computed one
NoStats ==
    [total_income |-> 0, hourly_income |-> 0, retainer_income |-> 0,
     monthly_target |-> 0, target_so_far |-> <<0, 1>>, daily_target |-> <<0, 1>>,
     daily_hours_target |-> <<0, 1>>, total_work_days |-> 0, days_worked |-> 0,
     total_hours |-> 0, avg_hourly_rate |-> <<0, 1>>]

NoCall ==
    [called |-> FALSE, client_name |-> "", limit_type |-> None,
     contract_start_date |-> None, year |-> <<>>, month |-> <<>>,
     result |-> Return(0)]

NoWorkDayCall == [called |-> FALSE, date |-> Date(1, 1, 1), result |-> FALSE]

\* the monthly breakdown before the dashboard has built it
NoBreakdown == [shown |-> FALSE, rows |-> <<>>, total_invoice |-> 0]

\* the settings widgets of a session that has not opened the settings page
NoInputs == [monthly_target |-> 0, work_days |-> <<>>]

\* the locals of a script run that has not rendered its page yet; the
\* selectboxes start at the current month and year
NoPage ==
    /\ selected_year = today.year /\ selected_month = today.month
    /\ work_days_count = -1
    /\ stats = NoStats
    /\ pc = "idle" /\ day = 0
    /\ cumulative_target = <<0, 1>> /\ cumulative_actual = 0
    /\ dates = <<>> /\ targets = <<>> /\ actuals = <<>>
    /\ hours_call = NoCall
    /\ work_day_call = NoWorkDayCall
    /\ limit_data = <<>>
    /\ breakdown = NoBreakdown

\* st.rerun(), or a widget change: the script starts over and the locals of
\* the run before are gone
Rerun ==
    /\ work_days_count' = -1
    /\ stats' = NoStats
    /\ pc' = "idle" /\ day' = 0
    /\ cumulative_target' = <<0, 1>> /\ cumulative_actual' = 0
    /\ dates' = <<>> /\ targets' = <<>> /\ actuals' = <<>>
    /\ hours_call' = NoCall
    /\ work_day_call' = NoWorkDayCall
    /\ limit_data' = <<>>
    /\ breakdown' = NoBreakdown

\* a script run started by a button or a form that ends without st.rerun(),
\* with the page at `position`: the locals of the run before are gone
RunTo(position) ==
    /\ work_days_count' = -1
    /\ stats' = NoStats
    /\ pc' = position /\ day' = 0
    /\ cumulative_target' = <<0, 1>> /\ cumulative_actual' = 0
    /\ dates' = <<>> /\ targets' = <<>> /\ actuals' = <<>>
    /\ hours_call' = NoCall
    /\ work_day_call' = NoWorkDayCall
    /\ limit_data' = <<>>
    /\ breakdown' = NoBreakdown

\* the year selectbox of a page, over the years `Years` of its range
SelectYear(Years) ==
    /\ \E y \in Years : y # selected_year /\ selected_year' = y
    /\ Rerun
    /\ UNCHANGED <<clients, time_entries, invoices, settings, non_work_days, today,
                   selected_month, scenario_entries,
                   adding_non_work, settings_inputs>>

\* the month selectbox of a page
SelectMonth(Months) ==
    /\ \E m \in Months : m # selected_month /\ selected_month' = m
    /\ Rerun
    /\ UNCHANGED <<clients, time_entries, invoices, settings, non_work_days, today,
                   selected_year, scenario_entries,
                   adding_non_work, settings_inputs>>

----------------------------------------------------------------------------
(* Dashboard: top metrics, then the projection loop, one day per step      *)

DashMonths == {2, 3}

InitDash ==
    /\ clients \in Rosters
    /\ \E l \in DashLogs : time_entries = l[1] /\ invoices = l[2]
    /\ \E c \in DashCalendars : settings = c[1] /\ non_work_days = c[2]
    /\ today = Date(2024, 3, 15)
    /\ scenario_entries = <<>>
    /\ adding_non_work = {}
    /\ settings_inputs = NoInputs
    /\ NoPage

DashSelectMonth == SelectMonth(DashMonths)

\* show_dashboard up to the start of the loop
DashboardRender ==
    /\ pc = "idle"
    /\ stats' = calculate_monthly_stats(selected_year, selected_month, clients,
                                        time_entries, invoices, settings,
                                        non_work_days)
    /\ pc' = "loop"
    /\ day' = 1
    /\ cumulative_actual' = 0
    /\ cumulative_target' = <<0, 1>>
    /\ dates' = <<>> /\ targets' = <<>> /\ actuals' = <<>>
    /\ UNCHANGED <<clients, time_entries, invoices, settings, non_work_days, today,
                   selected_year, selected_month, work_days_count, hours_call,
                   work_day_call, scenario_entries, limit_data,
                   breakdown, adding_non_work, settings_inputs>>

\* one iteration of `for day in range(1, monthrange + 1)`
ProjectionDay ==
    /\ pc = "loop"
    /\ day <= monthrange(selected_year, selected_month)
    /\ LET date == Date(selected_year, selected_month, day)
           target == next_target(cumulative_target, date, stats.daily_target,
                                 split_work_days(settings.work_days), non_work_days)
           actual == cumulative_actual
                        + daily_income(time_entries, clients, date)
                        + daily_invoice_total(invoices, date)
       IN  /\ dates' = Append(dates, date)
           /\ cumulative_target' = target
           /\ targets' = Append(targets, target)
           /\ cumulative_actual' = actual
           /\ actuals' = Append(actuals, actual)
    /\ day' = day + 1
    /\ UNCHANGED <<clients, time_entries, invoices, settings, non_work_days, today,
                   selected_year, selected_month, work_days_count, stats, pc,
                   hours_call,
                   work_day_call, scenario_entries, limit_data,
                   breakdown, adding_non_work, settings_inputs>>

\* the loop left one day early, as over range(1, monthrange)
ProjectionDoneEarly ==
    /\ pc = "loop"
    /\ day >= monthrange(selected_year, selected_month)
    /\ pc' = "done"
    /\ UNCHANGED <<clients, time_entries, invoices, settings, non_work_days, today,
                   selected_year, selected_month, work_days_count, stats, day,
                   cumulative_target, cumulative_actual, dates, targets, actuals,
                   hours_call, work_day_call, scenario_entries, limit_data,
                   breakdown, adding_non_work, settings_inputs>>

\* the range is exhausted: the chart is drawn from dates, targets, actuals
ProjectionDone ==
    /\ pc = "loop"
    /\ day > monthrange(selected_year, selected_month)
    /\ pc' = "done"
    /\ UNCHANGED <<clients, time_entries, invoices, settings, non_work_days, today,
                   selected_year, selected_month, work_days_count, stats, day,
                   cumulative_target, cumulative_actual, dates, targets, actuals,
                   hours_call,
                   work_day_call, scenario_entries, limit_data,
                   breakdown, adding_non_work, settings_inputs>>

NextDash == DashSelectMonth \/ DashboardRender \/ ProjectionDay \/ ProjectionDone

SpecDash == InitDash /\ [][NextDash]_vars

----------------------------------------------------------------------------
(* Top metrics alone: calculate_monthly_stats for a month and a clock      *)

\* the dashboard rosters, one with an inactive Hourly client, one whose only
\* Hourly client has the rate 0
StatsRosters ==
    Rosters \cup
    { <<Client("Acme", "Hourly", 100),
        [Client("Beta", "Hourly", 150) EXCEPT !.active = FALSE]>>,
      <<Client("Acme", "Hourly", 0)>> }

StatsLogs == DashLogs

\* the dashboard calendars, and Mondays alone with every Monday of March 2024
\* marked non-work
StatsCalendars ==
    DashCalendars \cup
    { <<Settings(8000, <<"Monday">>),
        <<NonWorkDay(Date(2024, 3, 4)), NonWorkDay(Date(2024, 3, 11)),
          NonWorkDay(Date(2024, 3, 18)), NonWorkDay(Date(2024, 3, 25))>> >> }

StatsMonths == {2, 3, 4}

StatsToday == {Date(2024, 2, 29), Date(2024, 3, 6), Date(2024, 3, 31)}

InitStats ==
    /\ clients \in StatsRosters
    /\ \E l \in StatsLogs : time_entries = l[1] /\ invoices = l[2]
    /\ \E c \in StatsCalendars : settings = c[1] /\ non_work_days = c[2]
    /\ today \in StatsToday
    /\ scenario_entries = <<>>
    /\ adding_non_work = {}
    /\ settings_inputs = NoInputs
    /\ NoPage

StatsSelectMonth == SelectMonth(StatsMonths)

\* stats = calculate_monthly_stats(selected_year, selected_month, ...)
StatsRender ==
    /\ pc = "idle"
    /\ stats' = calculate_monthly_stats(selected_year, selected_month, clients,
                                        time_entries, invoices, settings,
                                        non_work_days)
    /\ pc' = "metrics"
    /\ UNCHANGED <<clients, time_entries, invoices, settings, non_work_days, today,
                   selected_year, selected_month, work_days_count, day,
                   cumulative_target, cumulative_actual, dates, targets, actuals,
                   hours_call,
                   work_day_call, scenario_entries, limit_data,
                   breakdown, adding_non_work, settings_inputs>>

NextStats == StatsSelectMonth \/ StatsRender

SpecStats == InitStats /\ [][NextStats]_vars

----------------------------------------------------------------------------
(* Calendar page: the work-day count of the selected month                 *)

CalendarWorkDays ==
    { Weekdays, <<"Saturday", "Sunday">>, <<"Monday">>, <<>>,
      <<"Monday", "Tuesday", "Wednesday", "Thursday", "Friday", "Saturday", "Sunday">> }

CalendarDates == {Date(2024, 3, 1), Date(2024, 3, 2), Date(2024, 2, 29)}

\* non-work-day lists without a repeated date
CalendarNonWorkDays ==
    {l \in SeqsUpTo({NonWorkDay(d) : d \in CalendarDates}, MaxNonWorkDays) :
        \A i, j \in DOMAIN l : i # j => l[i] # l[j]}

InitCalendar ==
    /\ clients = <<>> /\ time_entries = <<>> /\ invoices = <<>>
    /\ \E w \in CalendarWorkDays : settings = Settings(8000, w)
    /\ non_work_days \in CalendarNonWorkDays
    /\ today = Date(2024, 3, 15)
    /\ scenario_entries = <<>>
    /\ adding_non_work = {}
    /\ settings_inputs = NoInputs
    /\ NoPage

CalendarSelectYear == SelectYear(FirstYear..LastYear)

CalendarSelectMonth == SelectMonth(1..12)

\* show_calendar_manager: the work-day count of the selected month
CalendarRender ==
    /\ pc = "idle"
    /\ work_days_count' =
          get_work_days_in_month(selected_year, selected_month,
                                 split_work_days(settings.work_days), non_work_days)
    /\ pc' = "calendar"
    /\ UNCHANGED <<clients, time_entries, invoices, settings, non_work_days, today,
                   selected_year, selected_month, stats, day, cumulative_target,
                   cumulative_actual, dates, targets, actuals, hours_call,
                   work_day_call, scenario_entries, limit_data,
                   breakdown, adding_non_work, settings_inputs>>

\* one call of the loop of get_work_days_in_month, for a day of the month:
\* is_work_day(date, work_day_names, non_work_days_df)
WorkDayCall ==
    /\ pc = "calendar"
    /\ \E d \in 1..monthrange(selected_year, selected_month) :
          LET date == Date(selected_year, selected_month, d)
          IN  work_day_call' =
                  [called |-> TRUE, date |-> date,
                   result |-> is_work_day(date, split_work_days(settings.work_days),
                                          non_work_days)]
    /\ pc' = "workday"
    /\ UNCHANGED <<clients, time_entries, invoices, settings, non_work_days, today,
                   selected_year, selected_month, work_days_count, stats, day,
                   cumulative_target, cumulative_actual, dates, targets, actuals,
                   hours_call, scenario_entries, limit_data,
                   breakdown, adding_non_work, settings_inputs>>

NextCalendar ==
    CalendarSelectYear \/ CalendarSelectMonth \/ CalendarRender \/ WorkDayCall

SpecCalendar == InitCalendar /\ [][NextCalendar]_vars

----------------------------------------------------------------------------
(* Hour limits: the time-entry log grows, calculate_client_hours is called *)

HoursRoster ==
    <<Client("Acme", "Hourly", 100), Client("Beta", "Retainer/Flat Fee", 0)>>

\* Acme around the month ends of February 2024 and the contract start
\* 2024-02-01, and entries of another client
HoursEntries ==
    { Entry(Date(2024, 1, 15), "Acme", 10), Entry(Date(2024, 2, 1), "Acme", 4),
      Entry(Date(2024, 2, 10), "Acme", 10), Entry(Date(2024, 2, 29), "Acme", 3),
      Entry(Date(2024, 3, 1), "Acme", 5), Entry(Date(2024, 2, 10), "Beta", 6),
      Entry(Date(2024, 1, 15), "Beta", 2) }

LimitTypes ==
    { Str("Monthly"), Str("Contract Total"), Str("None"), Str(""), NaN, None,
      Str("Weekly") }

StartDates == { None, NaN, Str(""), Str("soon"), DateStr(Date(2024, 2, 1)) }

\* <<year, month>> arguments; <<>> is an omitted argument (None)
YearMonths ==
    { << <<>>, <<>> >>, << <<2024>>, <<1>> >>, << <<2024>>, <<2>> >>,
      << <<2024>>, <<3>> >> }

InitHours ==
    /\ clients = HoursRoster
    /\ time_entries = <<>> /\ invoices = <<>>
    /\ settings = Settings(8000, Weekdays)
    /\ non_work_days = <<>>
    /\ today = Date(2024, 2, 10)
    /\ scenario_entries = <<>>
    /\ adding_non_work = {}
    /\ settings_inputs = NoInputs
    /\ NoPage

\* show_time_entry, "Add Entry": the entry is appended, saved, and the page reruns
AddTimeEntry ==
    /\ Len(time_entries) < MaxEntries
    /\ \E e \in HoursEntries :
        /\ \E i \in DOMAIN clients :
              clients[i].active /\ clients[i].client_name = e.client_name
        /\ time_entries' = Append(time_entries, e)
    /\ Rerun
    /\ UNCHANGED <<clients, invoices, settings, non_work_days, today, selected_year,
                   selected_month, scenario_entries,
                   adding_non_work, settings_inputs>>

\* hours_used = calculate_client_hours(name, time_entries_df, limit_type,
\*                                     contract_start_date, year, month)
ClientHours ==
    /\ pc = "idle"
    /\ \E lt \in LimitTypes, sd \in StartDates, ym \in YearMonths :
        hours_call' =
            [called |-> TRUE, client_name |-> "Acme", limit_type |-> lt,
             contract_start_date |-> sd, year |-> ym[1], month |-> ym[2],
             result |-> calculate_client_hours("Acme", time_entries, lt, sd,
                                               ym[1], ym[2])]
    /\ pc' = "hours"
    /\ UNCHANGED <<clients, time_entries, invoices, settings, non_work_days, today,
                   selected_year, selected_month, work_days_count, stats, day,
                   cumulative_target, cumulative_actual, dates, targets, actuals,
                   work_day_call, scenario_entries, limit_data,
                   breakdown, adding_non_work, settings_inputs>>

NextHours == AddTimeEntry \/ ClientHours

SpecHours == InitHours /\ [][NextHours]_vars

----------------------------------------------------------------------------
(* Scenario planning page                                                  *)

\* a client added with "This client has an hour limit" checked
LimitClient(name, rate, limit, hours, start) ==
    [Client(name, "Hourly", rate) EXCEPT
        !.has_hour_limit = TRUE, !.limit_type = Str(limit), !.hour_limit = hours,
        !.contract_start_date = DateStr(start)]

\* no client; Acme with a monthly limit beside a retainer client; Acme with a
\* contract limit from 2024-03-10 beside another Hourly client
ScenarioRosters ==
    { <<>>,
      <<LimitClient("Acme", 100, "Monthly", 40, Date(2024, 1, 1)),
        Client("Beta", "Retainer/Flat Fee", 0)>>,
      <<LimitClient("Acme", 100, "Contract Total", 40, Date(2024, 3, 10)),
        Client("Beta", "Hourly", 150)>> }

\* <<time entries, invoices>> on file
ScenarioLogs ==
    { << <<>>, <<>> >>,
      << <<Entry(Date(2024, 3, 1), "Acme", 5)>>,
         <<Invoice(Date(2024, 3, 1), "Beta", 500)>> >>,
      << <<Entry(Date(2024, 3, 20), "Acme", 3), Entry(Date(2024, 4, 2), "Beta", 2)>>,
         <<>> >> }

ScenarioDates == {Date(2024, 3, 20), Date(2024, 4, 2)}
ScenarioHours == {4}
ScenarioMonths == {3, 4}
ScenarioYears == {2024, 2025}

InitScenario ==
    /\ clients \in ScenarioRosters
    /\ \E l \in ScenarioLogs : time_entries = l[1] /\ invoices = l[2]
    /\ settings = Settings(8000, Weekdays)
    /\ non_work_days = <<NonWorkDay(Date(2024, 3, 1))>>
    /\ today = Date(2024, 3, 15)
    /\ scenario_entries = <<>>
    /\ adding_non_work = {}
    /\ settings_inputs = NoInputs
    /\ NoPage

\* sorted(clients_df[active & (billing_type == 'Hourly')]['client_name'])
active_hourly_clients ==
    {clients[i].client_name : i \in {k \in DOMAIN clients : IsActiveHourly(clients[k])}}

ScenarioSelectMonth == SelectMonth(ScenarioMonths)

ScenarioSelectYear == SelectYear(ScenarioYears)

\* "Add to Scenario" that also writes the entry to the time-entry log
AddToScenarioSaved ==
    /\ active_hourly_clients # {}
    /\ Len(scenario_entries) < MaxScenario
    /\ \E scenario_date \in ScenarioDates, scenario_client \in active_hourly_clients,
          scenario_hours \in ScenarioHours :
          /\ scenario_entries' =
                Append(scenario_entries,
                       Entry(scenario_date, scenario_client, scenario_hours))
          /\ time_entries' =
                Append(time_entries,
                       Entry(scenario_date, scenario_client, scenario_hours))
    /\ Rerun
    /\ UNCHANGED <<clients, invoices, settings, non_work_days, today,
                   selected_year, selected_month,
                   adding_non_work, settings_inputs>>

\* "Add to Scenario": the entry is appended to the session list, the page reruns
AddToScenario ==
    /\ active_hourly_clients # {}
    /\ Len(scenario_entries) < MaxScenario
    /\ \E scenario_date \in ScenarioDates, scenario_client \in active_hourly_clients,
          scenario_hours \in ScenarioHours :
          scenario_entries' =
              Append(scenario_entries,
                     Entry(scenario_date, scenario_client, scenario_hours))
    /\ Rerun
    /\ UNCHANGED <<clients, time_entries, invoices, settings, non_work_days, today,
                   selected_year, selected_month,
                   adding_non_work, settings_inputs>>

\* "Clear All Scenarios"
ClearAllScenarios ==
    /\ active_hourly_clients # {}
    /\ scenario_entries' = <<>>
    /\ Rerun
    /\ UNCHANGED <<clients, time_entries, invoices, settings, non_work_days, today,
                   selected_year, selected_month,
                   adding_non_work, settings_inputs>>

\* "No active hourly clients to plan for.": the page returns before its form
ScenarioNoClients ==
    /\ pc = "idle"
    /\ active_hourly_clients = {}
    /\ pc' = "warned"
    /\ UNCHANGED <<clients, time_entries, invoices, settings, non_work_days, today,
                   selected_year, selected_month, work_days_count, stats, day,
                   cumulative_target, cumulative_actual, dates, targets, actuals,
                   hours_call, work_day_call, scenario_entries, limit_data,
                   breakdown, adding_non_work, settings_inputs>>

\* show_scenario_planning from the combined entries to the start of the loop
ScenarioRender ==
    /\ pc = "idle"
    /\ active_hourly_clients # {}
    /\ LET combined == combined_entries(time_entries, scenario_entries)
       IN  /\ stats' = calculate_monthly_stats(selected_year, selected_month, clients,
                                               combined, invoices, settings,
                                               non_work_days)
           /\ limit_data' = hour_limit_report(clients, combined, selected_year,
                                              selected_month)
    /\ breakdown' = NoBreakdown
    /\ pc' = "scenario_loop"
    /\ day' = 1
    /\ cumulative_actual' = 0
    /\ cumulative_target' = <<0, 1>>
    /\ dates' = <<>> /\ targets' = <<>> /\ actuals' = <<>>
    /\ UNCHANGED <<clients, time_entries, invoices, settings, non_work_days, today,
                   selected_year, selected_month, work_days_count, hours_call,
                   work_day_call, scenario_entries,
                   adding_non_work, settings_inputs>>

\* one iteration of the loop of the scenario page, over the combined entries
ScenarioDay ==
    /\ pc = "scenario_loop"
    /\ day <= monthrange(selected_year, selected_month)
    /\ LET date == Date(selected_year, selected_month, day)
           combined == combined_entries(time_entries, scenario_entries)
           target == next_target(cumulative_target, date, stats.daily_target,
                                 split_work_days(settings.work_days), non_work_days)
           actual == cumulative_actual
                        + daily_income(combined, clients, date)
                        + daily_invoice_total(invoices, date)
       IN  /\ dates' = Append(dates, date)
           /\ cumulative_target' = target
           /\ targets' = Append(targets, target)
           /\ cumulative_actual' = actual
           /\ actuals' = Append(actuals, actual)
    /\ day' = day + 1
    /\ UNCHANGED <<clients, time_entries, invoices, settings, non_work_days, today,
                   selected_year, selected_month, work_days_count, stats, pc,
                   hours_call, work_day_call, scenario_entries, limit_data,
                   breakdown, adding_non_work, settings_inputs>>

\* the range is exhausted: the chart is drawn
ScenarioDone ==
    /\ pc = "scenario_loop"
    /\ day > monthrange(selected_year, selected_month)
    /\ pc' = "scenario_done"
    /\ UNCHANGED <<clients, time_entries, invoices, settings, non_work_days, today,
                   selected_year, selected_month, work_days_count, stats, day,
                   cumulative_target, cumulative_actual, dates, targets, actuals,
                   hours_call, work_day_call, scenario_entries, limit_data,
                   breakdown, adding_non_work, settings_inputs>>

NextScenario ==
    \/ ScenarioSelectMonth \/ ScenarioSelectYear
    \/ AddToScenario \/ ClearAllScenarios
    \/ ScenarioNoClients \/ ScenarioRender \/ ScenarioDay \/ ScenarioDone

SpecScenario == InitScenario /\ [][NextScenario]_vars

----------------------------------------------------------------------------
(* Both projection loops, run to their end: a script run that has entered  *)
(* its for loop executes the next iteration, and leaves the loop when the  *)
(* range is exhausted, unless a widget change restarts the script.         *)

NextProjection ==
    NextScenario \/ DashboardRender \/ ProjectionDay \/ ProjectionDone

SpecProjection ==
    /\ InitScenario /\ [][NextProjection]_vars
    /\ WF_vars(ProjectionDay) /\ WF_vars(ProjectionDone)
    /\ WF_vars(ScenarioDay) /\ WF_vars(ScenarioDone)

----------------------------------------------------------------------------
(* The clock: results of calls made on one day, looked at on a later day   *)

ClockCalendar == <<Settings(8000, Weekdays), <<NonWorkDay(Date(2024, 3, 1))>> >>

InitClock ==
    /\ clients = HoursRoster
    /\ \E l \in StatsLogs : time_entries = l[1] /\ invoices = l[2]
    /\ settings = ClockCalendar[1] /\ non_work_days = ClockCalendar[2]
    /\ today \in StatsToday
    /\ scenario_entries = <<>>
    /\ adding_non_work = {}
    /\ settings_inputs = NoInputs
    /\ NoPage

\* midnight passes: datetime.now() moves on, the page on screen stays as it is
ClockAdvance ==
    /\ \E t \in StatsToday : DateLT(today, t) /\ today' = t
    /\ UNCHANGED <<clients, time_entries, invoices, settings, non_work_days,
                   selected_year, selected_month, work_days_count, stats, pc, day,
                   cumulative_target, cumulative_actual, dates, targets, actuals,
                   hours_call, work_day_call, scenario_entries, limit_data,
                   breakdown, adding_non_work, settings_inputs>>

\* calculate_client_hours for Acme with a Monthly or Contract Total limit
ClockClientHours ==
    /\ ClientHours
    /\ hours_call'.limit_type \in {Str("Monthly"), Str("Contract Total")}
    /\ hours_call'.contract_start_date \in {DateStr(Date(2024, 2, 1)), Str("soon")}

NextClock == StatsSelectMonth \/ StatsRender \/ ClockClientHours \/ ClockAdvance

SpecClock == InitClock /\ [][NextClock]_vars

----------------------------------------------------------------------------
(* Properties of calculate_client_hours, under SpecHours                   *)

\* the sum of hours of the rows of df at the positions I
RECURSIVE SumHoursAt(_, _)
SumHoursAt(df, I) ==
    IF I = {} THEN 0
    ELSE LET i == CHOOSE k \in I : TRUE IN df[i].hours + SumHoursAt(df, I \ {i})

\* df without its row i
Without(df, i) == SubSeq(df, 1, i - 1) \o SubSeq(df, i + 1, Len(df))

FirstDay(y, m) == Date(y, m, 1)
LastDay(y, m) == Date(y, m, monthrange(y, m))
InWindow(d, y, m) == DateLE(FirstDay(y, m), d) /\ DateLE(d, LastDay(y, m))

\* the year and month a call counts for: the ones given, else the current ones
CallYear == IF hours_call.year = <<>> \/ hours_call.month = <<>>
            THEN today.year ELSE hours_call.year[1]
CallMonth == IF hours_call.year = <<>> \/ hours_call.month = <<>>
             THEN today.month ELSE hours_call.month[1]

\* positions of the client's entries, all and inside the month of the call
ClientRows == {i \in DOMAIN time_entries :
                  time_entries[i].client_name = hours_call.client_name}
MonthRows == {i \in ClientRows : InWindow(time_entries[i].date, CallYear, CallMonth)}

\* the call of the state, repeated on another log or with other arguments
HoursOn(df) ==
    calculate_client_hours(hours_call.client_name, df, hours_call.limit_type,
                           hours_call.contract_start_date, hours_call.year,
                           hours_call.month)
HoursFor(ym) ==
    calculate_client_hours(hours_call.client_name, time_entries,
                           hours_call.limit_type, hours_call.contract_start_date,
                           ym[1], ym[2])

MonthlyCall ==
    /\ hours_call.called
    /\ hours_call.limit_type = Str("Monthly")
    /\ hours_call.year # <<>> /\ hours_call.month # <<>>

\* C4: with limit type Monthly and year=Y, month=M given, the result is the sum
\* of hours of exactly the client's entries dated from the first through the
\* last day of (Y, M); appending or removing an entry dated outside that window,
\* or an entry of another client, does not change it.
C4_MonthlyWindow ==
    MonthlyCall =>
        /\ ~hours_call.result.raised
        /\ hours_call.result.value = SumHoursAt(time_entries, MonthRows)
        /\ \A e \in HoursEntries :
              (e.client_name # hours_call.client_name
                  \/ ~InWindow(e.date, CallYear, CallMonth))
              => HoursOn(Append(time_entries, e)) = hours_call.result
        /\ \A i \in DOMAIN time_entries :
              i \notin MonthRows
              => HoursOn(Without(time_entries, i)) = hours_call.result

\* C4 happens: Monthly for February 2024 over an entry before the month and one
\* on its last day counts the second alone
C4_Witness ==
    /\ MonthlyCall
    /\ hours_call.year = <<2024>> /\ hours_call.month = <<2>>
    /\ time_entries = <<Entry(Date(2024, 1, 15), "Acme", 10),
                        Entry(Date(2024, 2, 29), "Acme", 3)>>
    /\ hours_call.result.value = 3

ContractCall ==
    /\ hours_call.called
    /\ hours_call.limit_type = Str("Contract Total")

ValidStart == hours_call.contract_start_date.date # <<>>

StartRows == {i \in ClientRows :
                 DateLE(hours_call.contract_start_date.date[1], time_entries[i].date)}

\* C5: with limit type Contract Total and a valid start date the result is the
\* sum of hours of the client's entries dated on or after the start date, so no
\* entry before it counts, and it is the same for every year/month argument.
C5_ContractTotalSinceStart ==
    (ContractCall /\ ValidStart) =>
        /\ hours_call.result = Return(SumHoursAt(time_entries, StartRows))
        /\ \A ym \in YearMonths : HoursFor(ym) = hours_call.result

\* C5 happens: start 2024-02-01, 10h on 2024-01-15 and 10h on 2024-02-10 give 10
C5_Witness ==
    /\ ContractCall
    /\ hours_call.contract_start_date = DateStr(Date(2024, 2, 1))
    /\ time_entries = <<Entry(Date(2024, 1, 15), "Acme", 10),
                        Entry(Date(2024, 2, 10), "Acme", 10)>>
    /\ hours_call.result.value = 10

\* an absent start date as a loaded client row can hold it: None (the column
\* added for an old file), NaN (a blank CSV cell), or the empty string
AbsentStart == hours_call.contract_start_date \in {None, NaN, Str("")}

\* C6: with limit type Contract Total and an absent contract start date, however
\* the absence is represented, the result is the sum of hours over all of the
\* client's entries.
C6_AbsentStartSumsAll ==
    (ContractCall /\ AbsentStart) =>
        hours_call.result = Return(SumHoursAt(time_entries, ClientRows))

\* a start date that is present and is no date
UnparseableStart ==
    /\ hours_call.contract_start_date.tag = "str"
    /\ hours_call.contract_start_date.text # ""
    /\ hours_call.contract_start_date.date = <<>>

\* C7: no call signals an error, whatever the limit type and the start date;
\* with Contract Total and a start date that does not parse, the result is the
\* sum of hours over all of the client's entries.
C7_NoErrorFallsBackToAll ==
    hours_call.called =>
        /\ ~hours_call.result.raised
        /\ (ContractCall /\ UnparseableStart)
              => hours_call.result.value = SumHoursAt(time_entries, ClientRows)

\* C7 happens: Contract Total with the start date "soon" over two entries
C7_Witness ==
    /\ ContractCall
    /\ hours_call.contract_start_date = Str("soon")
    /\ time_entries = <<Entry(Date(2024, 1, 15), "Acme", 10),
                        Entry(Date(2024, 3, 1), "Acme", 5)>>
    /\ hours_call.result = Return(15)

\* C8: every limit type other than 'Contract Total' (missing, empty, 'None',
\* unrecognized) gives the result of the Monthly calculation for the same
\* client, entries, year and month: the client's hours inside that month.
C8_OtherLimitTypesAreMonthly ==
    (hours_call.called /\ hours_call.limit_type # Str("Contract Total")) =>
        /\ hours_call.result = Return(SumHoursAt(time_entries, MonthRows))
        /\ hours_call.result =
              calculate_client_hours(hours_call.client_name, time_entries,
                                     Str("Monthly"),
                                     hours_call.contract_start_date,
                                     hours_call.year, hours_call.month)

\* C8 happens: the unrecognized limit type "Weekly", February 2024
C8_Witness ==
    /\ hours_call.called
    /\ hours_call.limit_type = Str("Weekly")
    /\ hours_call.year = <<2024>> /\ hours_call.month = <<2>>
    /\ time_entries = <<Entry(Date(2024, 1, 15), "Acme", 10),
                        Entry(Date(2024, 2, 1), "Acme", 4)>>
    /\ hours_call.result = Return(4)

\* the window the limit type of the call applies to an entry date: the month
\* of the call, or the days from a valid contract start on, or every day when
\* the contract start is absent or is no date
Applicable(d) ==
    IF hours_call.limit_type # Str("Contract Total")
    THEN InWindow(d, CallYear, CallMonth)
    ELSE IF ValidStart THEN DateLE(hours_call.contract_start_date.date[1], d)
    ELSE TRUE

\* C9: for fixed client, limit type, start date, year and month, appending an
\* entry never decreases the result, and increases it by exactly the entry's
\* hours when the entry is the client's and dated inside the applicable window.
C9_AppendMonotone ==
    hours_call.called =>
        \A e \in HoursEntries :
            LET after == HoursOn(Append(time_entries, e))
            IN  /\ after.value >= hours_call.result.value
                /\ (e.client_name = hours_call.client_name /\ Applicable(e.date))
                      => after.value = hours_call.result.value + e.hours

----------------------------------------------------------------------------
(* Properties of get_work_days_in_month, under SpecCalendar                *)

\* the names of the work-day list and the dates of the non-work-day list
WorkDayNames == {settings.work_days[i] : i \in DOMAIN settings.work_days}
NonWorkDates == {non_work_days[i].date : i \in DOMAIN non_work_days}

\* the days of the selected month that are work days by the glossary: the
\* weekday is in the weekly pattern and the date is not marked non-work
WorkDaysOfMonth ==
    {d \in 1..monthrange(selected_year, selected_month) :
        /\ day_name[weekday(Date(selected_year, selected_month, d)) + 1]
              \in WorkDayNames
        /\ Date(selected_year, selected_month, d) \notin NonWorkDates}

\* the first day of the month after the selected one
NextMonthStart ==
    IF selected_month = 12 THEN Date(selected_year + 1, 1, 1)
    ELSE Date(selected_year, selected_month + 1, 1)

\* C10: for every year and month, leap Februaries included, the count is the
\* number of days of the month whose weekday name is in the work-day list and
\* whose date is not in the non-work-day list; it never exceeds the number of
\* days of the month; Monday-Friday with no non-work days in March 2024 is 21.
C10_WorkDaysInMonth ==
    pc = "calendar" =>
        /\ work_days_count = Cardinality(WorkDaysOfMonth)
        /\ work_days_count <= monthrange(selected_year, selected_month)
        /\ monthrange(selected_year, selected_month) =
              toordinal(NextMonthStart)
                  - toordinal(Date(selected_year, selected_month, 1))
        /\ (/\ selected_year = 2024 /\ selected_month = 3
            /\ settings.work_days = Weekdays /\ non_work_days = <<>>)
              => work_days_count = 21
        /\ (/\ selected_year = 2024 /\ selected_month = 2
            /\ Len(settings.work_days) = 7 /\ non_work_days = <<>>)
              => work_days_count = 29

\* C10 happens: February 2024, Monday-Friday, the 29th marked non-work: 20 days
C10_Witness ==
    /\ pc = "calendar"
    /\ selected_year = 2024 /\ selected_month = 2
    /\ settings.work_days = Weekdays
    /\ non_work_days = <<NonWorkDay(Date(2024, 2, 29))>>
    /\ work_days_count = 20

\* C11: is_work_day(date, workDays, nonWorkDays) is true exactly when the
\* weekday name of the date is in workDays and the date does not appear in
\* nonWorkDays; a date listed in nonWorkDays is never a work day, whatever its
\* weekday.
C11_IsWorkDay ==
    work_day_call.called =>
        /\ work_day_call.result =
              (/\ day_name[weekday(work_day_call.date) + 1] \in WorkDayNames
               /\ work_day_call.date \notin NonWorkDates)
        /\ work_day_call.date \in NonWorkDates => ~work_day_call.result

\* C11 happens: Saturday 2024-03-02 with the work days Saturday and Sunday is
\* marked non-work, and is no work day
C11_Witness ==
    /\ work_day_call.called
    /\ work_day_call.date = Date(2024, 3, 2)
    /\ settings.work_days = <<"Saturday", "Sunday">>
    /\ work_day_call.date \in NonWorkDates
    /\ ~work_day_call.result

----------------------------------------------------------------------------
(* Properties of the projection loop, under SpecDash                       *)

\* C1: when the loop has ended, the last value of the cumulative-actual series
\* equals the total_income that calculate_monthly_stats returned for the same
\* month and the same clients, time entries and invoices.
C1_FinalActualIsTotalIncome ==
    pc = "done" =>
        /\ actuals # <<>>
        /\ actuals[Len(actuals)] = stats.total_income
        /\ cumulative_actual = stats.total_income

\* C1 happens: March 2024 with hourly income and an invoice, both inside the month
C1_Witness ==
    /\ pc = "done"
    /\ selected_month = 3
    /\ stats.hourly_income > 0 /\ stats.retainer_income > 0
    /\ actuals[Len(actuals)] = stats.hourly_income + stats.retainer_income

\* the target before day i of the series
TargetBefore(i) == IF i = 1 THEN <<0, 1>> ELSE targets[i - 1]

\* C2: the cumulative-target series never decreases; on a day for which
\* is_work_day is true it grows by daily_target, on every other day it is
\* carried forward unchanged; its final value is total_work_days x daily_target.
C2_TargetSeries ==
    /\ Len(targets) = Len(dates)
    /\ \A i \in DOMAIN targets :
          /\ RatLE(TargetBefore(i), targets[i])
          /\ targets[i] =
                IF is_work_day(dates[i], split_work_days(settings.work_days),
                               non_work_days)
                THEN RatAdd(TargetBefore(i), stats.daily_target)
                ELSE TargetBefore(i)
    /\ pc = "done" =>
          /\ targets # <<>>
          /\ targets[Len(targets)] =
                RatTimes(stats.daily_target, stats.total_work_days)
          /\ cumulative_target = targets[Len(targets)]

\* C2 happens: March 2024, Monday-Friday with Friday the 1st marked non-work:
\* the series starts at 0, stays there on the 1st to 3rd and ends at the target
C2_Witness ==
    /\ pc = "done"
    /\ selected_month = 3
    /\ non_work_days # <<>>
    /\ stats.total_work_days = 20
    /\ targets[1] = <<0, 1>> /\ targets[3] = <<0, 1>>
    /\ targets[4] = stats.daily_target
    /\ targets[Len(targets)] = <<8000, 1>>

----------------------------------------------------------------------------
(* Properties of calculate_monthly_stats, under SpecStats                  *)

\* the work days of the selected month that are not after today
WorkDaysSoFar ==
    {d \in 1..monthrange(selected_year, selected_month) :
        /\ is_work_day(Date(selected_year, selected_month, d),
                       split_work_days(settings.work_days), non_work_days)
        /\ DateLE(Date(selected_year, selected_month, d), today)}

\* C3: days_worked is the number of work days of the month from the 1st
\* through min(today, last day of the month), counting only dates <= today: a
\* month wholly before today gives every work day of the month, a month wholly
\* after today gives 0.
C3_DaysWorked ==
    pc = "metrics" => stats.days_worked = Cardinality(WorkDaysSoFar)

\* the names of the clients with billing type Hourly, and the rate of a client
HourlyNames == {clients[i].client_name : i \in {k \in DOMAIN clients : IsHourly(clients[k])}}
RateOf(name) == clients[CHOOSE i \in DOMAIN clients : clients[i].client_name = name].hourly_rate

\* positions of the time entries dated inside the selected month whose client
\* is an Hourly client, and of the invoices dated inside the selected month
BillableRows ==
    {i \in DOMAIN time_entries :
        /\ InWindow(time_entries[i].date, selected_year, selected_month)
        /\ time_entries[i].client_name \in HourlyNames}
InvoiceRows ==
    {i \in DOMAIN invoices : InWindow(invoices[i].date, selected_year, selected_month)}

\* the sum of hours x rate of the time entries at the positions I
RECURSIVE SumBillableAt(_)
SumBillableAt(I) ==
    IF I = {} THEN 0
    ELSE LET i == CHOOSE k \in I : TRUE
         IN  time_entries[i].hours * RateOf(time_entries[i].client_name)
                + SumBillableAt(I \ {i})

\* the sum of the amounts of the invoices at the positions I
RECURSIVE SumAmountAt(_)
SumAmountAt(I) ==
    IF I = {} THEN 0
    ELSE LET i == CHOOSE k \in I : TRUE IN invoices[i].amount + SumAmountAt(I \ {i})

\* C12: hourly_income is the sum of hours x hourly_rate, and total_hours the sum
\* of hours, over exactly the time entries dated inside the month whose client
\* is a client with billing type Hourly; entries of Retainer clients, of unknown
\* clients, or dated outside the month add nothing (Acme at 100/hr with 5h and
\* 3h in March 2024 gives 800 and 8).
C12_HourlyIncome ==
    pc = "metrics" =>
        /\ stats.hourly_income = SumBillableAt(BillableRows)
        /\ stats.total_hours = SumHoursAt(time_entries, BillableRows)
        /\ (/\ selected_year = 2024 /\ selected_month = 3
            /\ time_entries = <<Entry(Date(2024, 3, 1), "Acme", 5),
                                Entry(Date(2024, 3, 15), "Acme", 3)>>
            /\ "Acme" \in HourlyNames /\ RateOf("Acme") = 100)
              => stats.hourly_income = 800 /\ stats.total_hours = 8

\* C12 happens: March 2024, Acme Hourly at 100 with 5h on the 1st, and 7h of a
\* client that is in no roster on the 15th: 500 and 5
C12_Witness ==
    /\ pc = "metrics"
    /\ selected_year = 2024 /\ selected_month = 3
    /\ clients = <<Client("Acme", "Hourly", 100), Client("Beta", "Retainer/Flat Fee", 0)>>
    /\ time_entries = <<Entry(Date(2024, 3, 1), "Acme", 5),
                        Entry(Date(2024, 3, 15), "Ghost", 7)>>
    /\ stats.hourly_income = 500 /\ stats.total_hours = 5

\* C13: retainer_income is the sum of amount over all invoices dated inside the
\* month, whatever the billing type (or existence) of the invoiced client, and
\* total_income = hourly_income + retainer_income.
C13_RetainerAndTotalIncome ==
    pc = "metrics" =>
        /\ stats.retainer_income = SumAmountAt(InvoiceRows)
        /\ stats.total_income = stats.hourly_income + stats.retainer_income

\* C13 happens: February 2024, two invoices of 120 of a client that is in no
\* roster, dated the 29th: 240
C13_Witness ==
    /\ pc = "metrics"
    /\ selected_year = 2024 /\ selected_month = 2
    /\ invoices = <<Invoice(Date(2024, 2, 29), "Ghost", 120),
                    Invoice(Date(2024, 2, 29), "Ghost", 120)>>
    /\ stats.retainer_income = 240 /\ stats.total_income = 240

\* the days of the selected month that are work days, as a set
StatsWorkDays ==
    {d \in 1..monthrange(selected_year, selected_month) :
        /\ day_name[weekday(Date(selected_year, selected_month, d)) + 1]
              \in WorkDayNames
        /\ Date(selected_year, selected_month, d) \notin NonWorkDates}

\* C14: daily_target = monthly_target / total_work_days when total_work_days > 0,
\* and daily_target = 0, a number, whenever total_work_days = 0, as when every
\* candidate day of the month is marked non-work.
C14_DailyTarget ==
    pc = "metrics" =>
        /\ stats.total_work_days = Cardinality(StatsWorkDays)
        /\ stats.daily_target[2] > 0
        /\ stats.total_work_days > 0
              => stats.daily_target[1] * stats.total_work_days
                    = stats.monthly_target * stats.daily_target[2]
        /\ stats.total_work_days = 0 => stats.daily_target = <<0, 1>>

\* C14 happens: March 2024 with Mondays alone as work days and all four Mondays
\* marked non-work: no work day, daily target 0
C14_Witness ==
    /\ pc = "metrics"
    /\ selected_year = 2024 /\ selected_month = 3
    /\ settings.work_days = <<"Monday">> /\ Len(non_work_days) = 4
    /\ stats.monthly_target = 8000
    /\ stats.total_work_days = 0
    /\ stats.daily_target = <<0, 1>>

\* positions of the clients with billing type Hourly
HourlyRows == {i \in DOMAIN clients : clients[i].billing_type = "Hourly"}

\* the sum of the rates of the clients at the positions I
RECURSIVE SumRateAt(_)
SumRateAt(I) ==
    IF I = {} THEN 0
    ELSE LET i == CHOOSE k \in I : TRUE IN clients[i].hourly_rate + SumRateAt(I \ {i})

\* C15: avg_hourly_rate is the arithmetic mean of hourly_rate over all clients
\* with billing type Hourly, active or not (0 when there is none), and
\* daily_hours_target = daily_target / avg_hourly_rate when avg_hourly_rate > 0,
\* else 0.
C15_AverageRateAndHoursTarget ==
    pc = "metrics" =>
        LET avg == stats.avg_hourly_rate
            dt == stats.daily_target
            dht == stats.daily_hours_target
        IN  /\ avg[2] > 0
            /\ HourlyRows = {} => avg = <<0, 1>>
            /\ HourlyRows # {}
                  => avg[1] * Cardinality(HourlyRows) = SumRateAt(HourlyRows) * avg[2]
            /\ avg[1] > 0 => dht[1] * avg[1] * dt[2] = dt[1] * avg[2] * dht[2]
            /\ avg[1] = 0 => dht = <<0, 1>>

\* C15 happens: Acme Hourly at 100 and the inactive Beta Hourly at 150 give the
\* mean 125; with 8000 over the 21 work days of March 2024 the hours target is
\* (8000 / 21) / 125 = 64 / 21
C15_Witness ==
    /\ pc = "metrics"
    /\ selected_year = 2024 /\ selected_month = 3
    /\ \E i \in DOMAIN clients : ~clients[i].active /\ clients[i].billing_type = "Hourly"
    /\ stats.avg_hourly_rate = <<125, 1>>
    /\ stats.total_work_days = 21
    /\ stats.daily_hours_target = <<64, 21>>

----------------------------------------------------------------------------
(* Properties of the calls over time, under SpecClock                      *)

\* the call that produced `stats`, made again now
StatsNow ==
    calculate_monthly_stats(selected_year, selected_month, clients, time_entries,
                            invoices, settings, non_work_days)

\* a call of calculate_client_hours that does not fall back on the current month
MonthGiven ==
    \/ hours_call.year # <<>> /\ hours_call.month # <<>>
    \/ hours_call.limit_type = Str("Contract Total")

\* C16 as stated: a call returns the same result whenever it is made, so the
\* result of an earlier call of calculate_monthly_stats or calculate_client_hours
\* is the result of the same call on the same snapshots made now.
C16_PureOfSnapshots ==
    /\ pc = "metrics" => stats = StatsNow
    /\ hours_call.called => hours_call.result = HoursOn(time_entries)

\* C16 amended: the same call on the same snapshots made on another day agrees
\* on every field of the monthly stats except days_worked and target_so_far,
\* and calculate_client_hours agrees whenever year and month are given or the
\* limit type is Contract Total.
C16_PureUpToClock ==
    /\ pc = "metrics" =>
          /\ [stats EXCEPT !.days_worked = 0, !.target_so_far = <<0, 1>>]
                = [StatsNow EXCEPT !.days_worked = 0, !.target_so_far = <<0, 1>>]
    /\ (hours_call.called /\ MonthGiven) => hours_call.result = HoursOn(time_entries)

\* C16 happens: stats computed for March 2024 on an earlier day, with income,
\* whose days_worked is no longer the one of a call made today
C16_Witness ==
    /\ pc = "metrics"
    /\ selected_month = 3
    /\ today = Date(2024, 3, 31)
    /\ stats.total_income > 0
    /\ stats.days_worked # StatsNow.days_worked

----------------------------------------------------------------------------
(* Properties of the scenario page, under SpecScenario                     *)

\* the page has computed its stats and hour-limit report
ScenarioPage == pc \in {"scenario_loop", "scenario_done"}

\* the real-only run of the same month: the calls of show_dashboard
RealStats ==
    calculate_monthly_stats(selected_year, selected_month, clients, time_entries,
                            invoices, settings, non_work_days)
RealReport == hour_limit_report(clients, time_entries, selected_year, selected_month)

\* the actual before day i of the series
ActualBefore(i) == IF i = 1 THEN 0 ELSE actuals[i - 1]

\* C17: with an empty list of scenario entries, the monthly stats, the hours
\* used of each client and the cumulative target and actual series of the
\* scenario page are those of the real-only run for the same month and the same
\* persisted data.
C17_EmptyScenarioIsRealRun ==
    (ScenarioPage /\ scenario_entries = <<>>) =>
        /\ stats = RealStats
        /\ limit_data = RealReport
        /\ \A i \in DOMAIN dates :
              /\ targets[i] =
                    next_target(TargetBefore(i), dates[i], RealStats.daily_target,
                                split_work_days(settings.work_days), non_work_days)
              /\ actuals[i] =
                    ActualBefore(i) + daily_income(time_entries, clients, dates[i])
                        + daily_invoice_total(invoices, dates[i])

\* C17 happens: no scenario entry, March 2024, 5h of Acme and an invoice of 500
\* on file: the page ends at 1000 with 5 hours used
C17_Witness ==
    /\ pc = "scenario_done"
    /\ scenario_entries = <<>>
    /\ selected_year = 2024 /\ selected_month = 3
    /\ time_entries = <<Entry(Date(2024, 3, 1), "Acme", 5)>>
    /\ stats.total_income = 1000
    /\ Len(limit_data) = 1
    /\ limit_data[1].client_name = "Acme"
    /\ limit_data[1].hours_used = Return(5)
    /\ actuals[Len(actuals)] = 1000

\* C18: no operation of the scenario page (add a scenario entry, clear all,
\* change month or year, render) changes the persisted time entries, invoices,
\* clients, settings or non-work days.
C18_PersistedUnchanged ==
    [][UNCHANGED <<clients, time_entries, invoices, settings, non_work_days,
                   adding_non_work, settings_inputs>>]_vars

\* C18 happens: two scenario entries added and the page rendered to its end,
\* the log on file still the one entry it was
C18_Witness ==
    /\ pc = "scenario_done"
    /\ Len(scenario_entries) = 2
    /\ time_entries = <<Entry(Date(2024, 3, 1), "Acme", 5)>>
    /\ stats.total_hours > 5

\* the real entries followed by the hypothetical ones
Union == time_entries \o scenario_entries

\* the sum of hours x rate of the rows of df at the positions I
RECURSIVE BillableAt(_, _)
BillableAt(df, I) ==
    IF I = {} THEN 0
    ELSE LET i == CHOOSE k \in I : TRUE
         IN  df[i].hours * RateOf(df[i].client_name) + BillableAt(df, I \ {i})

\* positions in the union of the entries of Hourly clients, of the month and of a day
UnionRowsInMonth ==
    {i \in DOMAIN Union :
        /\ InWindow(Union[i].date, selected_year, selected_month)
        /\ Union[i].client_name \in HourlyNames}
UnionRowsOn(d) ==
    {i \in DOMAIN Union : Union[i].date = d /\ Union[i].client_name \in HourlyNames}
InvoiceRowsOn(d) == {i \in DOMAIN invoices : invoices[i].date = d}

\* the client row of a name, and the positions in the union that its limit counts
ClientNamed(name) == clients[CHOOSE i \in DOMAIN clients : clients[i].client_name = name]
LimitRows(c) ==
    {i \in DOMAIN Union :
        /\ Union[i].client_name = c.client_name
        /\ IF c.limit_type = Str("Contract Total")
           THEN DateLE(c.contract_start_date.date[1], Union[i].date)
           ELSE InWindow(Union[i].date, selected_year, selected_month)}

\* C19: in the scenario run, hourly income (in the stats and in each day of the
\* cumulative-actual series) and the hours used of each client are computed over
\* the union of real and hypothetical time entries, and the invoice part from
\* the real invoices only.
C19_ScenarioOverUnion ==
    ScenarioPage =>
        /\ stats.hourly_income = BillableAt(Union, UnionRowsInMonth)
        /\ stats.total_hours = SumHoursAt(Union, UnionRowsInMonth)
        /\ stats.retainer_income = SumAmountAt(InvoiceRows)
        /\ stats.retainer_income = RealStats.retainer_income
        /\ \A i \in DOMAIN actuals :
              actuals[i] - ActualBefore(i) =
                  BillableAt(Union, UnionRowsOn(dates[i]))
                      + SumAmountAt(InvoiceRowsOn(dates[i]))
        /\ Len(limit_data) = Cardinality({i \in DOMAIN clients : HasLimit(clients[i])})
        /\ \A k \in DOMAIN limit_data :
              limit_data[k].hours_used =
                  Return(SumHoursAt(Union, LimitRows(ClientNamed(limit_data[k].client_name))))

\* C19 happens: March 2024, 5h of Acme on file and 4h of Acme planned for the
\* 20th, an invoice of 500: hourly income 900, invoices 500, 9 hours used
C19_Witness ==
    /\ pc = "scenario_done"
    /\ selected_year = 2024 /\ selected_month = 3
    /\ time_entries = <<Entry(Date(2024, 3, 1), "Acme", 5)>>
    /\ scenario_entries = <<Entry(Date(2024, 3, 20), "Acme", 4)>>
    /\ stats.hourly_income = 900 /\ stats.retainer_income = 500
    /\ actuals[19] = 1000 /\ actuals[20] = 1400
    /\ Len(limit_data) = 1
    /\ limit_data[1].client_name = "Acme"
    /\ limit_data[1].hours_used = Return(9)

----------------------------------------------------------------------------
(* Properties of both projection loops, under SpecProjection               *)

InLoop == pc \in {"loop", "scenario_loop"}
LoopDone == pc \in {"done", "scenario_done"}

\* the records produced so far are those of the days 1, 2, ... of the selected
\* month, one per day, in this order
OneRecordPerDay ==
    /\ Len(targets) = Len(dates) /\ Len(actuals) = Len(dates)
    /\ Len(dates) = day - 1
    /\ \A i \in DOMAIN dates : dates[i] = Date(selected_year, selected_month, i)
    /\ \A i \in DOMAIN dates : i > 1 => DateLT(dates[i - 1], dates[i])

\* C20: the projection loop terminates after producing exactly one (date,
\* cumulative target, cumulative actual) record for each calendar day of the
\* selected month, in strictly ascending date order from the 1st to the last
\* day, with no day skipped or repeated.  A run that a widget change restarts
\* (pc back to "idle") is a new run.
C20_LoopTerminatesOneRecordPerDay ==
    /\ []((InLoop \/ LoopDone) => OneRecordPerDay)
    /\ [](LoopDone => Len(dates) = monthrange(selected_year, selected_month))
    /\ (InLoop ~> (LoopDone \/ pc = "idle"))

\* C20 happens: the scenario loop over April 2024 has ended with 30 records,
\* the first of 2024-04-01 and the last of 2024-04-30
C20_Witness ==
    /\ pc = "scenario_done"
    /\ selected_year = 2024 /\ selected_month = 4
    /\ Len(dates) = 30 /\ Len(targets) = 30 /\ Len(actuals) = 30
    /\ dates[1] = Date(2024, 4, 1) /\ dates[30] = Date(2024, 4, 30)

----------------------------------------------------------------------------
(* More properties of calculate_monthly_stats, under SpecStats             *)

\* C26: for every month, current date and input set, 0 <= days_worked <=
\* total_work_days and target_so_far = daily_target x days_worked, hence
\* target_so_far never exceeds monthly_target.
C26_DaysWorkedAndTargetSoFar ==
    pc = "metrics" =>
        /\ 0 <= stats.days_worked
        /\ stats.days_worked <= stats.total_work_days
        /\ stats.target_so_far[2] > 0
        /\ stats.target_so_far[1] * stats.daily_target[2]
              = stats.daily_target[1] * stats.days_worked * stats.target_so_far[2]
        /\ RatLE(<<0, 1>>, stats.target_so_far)
        /\ RatLE(stats.target_so_far, <<stats.monthly_target, 1>>)

\* C26 happens: March 2024 seen on 2024-03-06, Monday-Friday with the 1st marked
\* non-work: 3 of 20 work days, target so far 3 x 400 = 1200 of 8000
C26_Witness ==
    /\ pc = "metrics"
    /\ selected_year = 2024 /\ selected_month = 3
    /\ today = Date(2024, 3, 6)
    /\ stats.total_work_days = 20 /\ stats.days_worked = 3
    /\ stats.daily_target = <<400, 1>>
    /\ stats.target_so_far = <<1200, 1>>

----------------------------------------------------------------------------
(* The reports of the dashboard below the chart (hour limits, monthly      *)
(* breakdown) and the hour-limit report of the scenario page               *)

\* a roster row as the client editor can leave it: every column free
ClientRow(name, billing, rate, is_active, has_limit, limit, hours) ==
    [Client(name, billing, rate) EXCEPT
        !.active = is_active, !.has_hour_limit = has_limit,
        !.limit_type = Str(limit), !.hour_limit = hours]

\* no client; a limited Hourly client beside a Retainer client whose limit is
\* switched off with its value left at 10; a limit of 0 beside a limited
\* Retainer client; a switched-off limit beside an inactive limited client; a
\* limited Retainer client alone
ReportRosters ==
    { <<>>,
      <<ClientRow("Acme", "Hourly", 100, TRUE, TRUE, "Monthly", 40),
        ClientRow("Beta", "Retainer/Flat Fee", 0, TRUE, FALSE, "Monthly", 10)>>,
      <<ClientRow("Acme", "Hourly", 100, TRUE, TRUE, "Monthly", 0),
        ClientRow("Beta", "Retainer/Flat Fee", 0, TRUE, TRUE, "Monthly", 10)>>,
      <<ClientRow("Acme", "Hourly", 100, TRUE, FALSE, "Contract Total", 40),
        ClientRow("Beta", "Hourly", 150, FALSE, TRUE, "Monthly", 10)>>,
      <<ClientRow("Beta", "Retainer/Flat Fee", 0, TRUE, TRUE, "Contract Total", 40)>> }

\* time-entry logs: 36 h (90 % of 40), 30 h (75 %), 48 h (120 %), 29 h, and
\* entries of a Retainer client and of "Ghost", a name that is in no roster
ReportEntries ==
    { <<>>,
      <<Entry(Date(2024, 3, 1), "Acme", 24), Entry(Date(2024, 3, 20), "Acme", 12)>>,
      <<Entry(Date(2024, 3, 1), "Acme", 24), Entry(Date(2024, 3, 20), "Acme", 6)>>,
      <<Entry(Date(2024, 3, 1), "Acme", 24), Entry(Date(2024, 3, 4), "Acme", 24)>>,
      <<Entry(Date(2024, 3, 1), "Acme", 24), Entry(Date(2024, 3, 1), "Ghost", 12)>>,
      <<Entry(Date(2024, 3, 20), "Beta", 12), Entry(Date(2024, 4, 2), "Acme", 5)>>,
      <<Entry(Date(2024, 3, 1), "Ghost", 6), Entry(Date(2024, 3, 1), "Beta", 6)>> }

ReportInvoices ==
    { <<>>,
      <<Invoice(Date(2024, 3, 1), "Beta", 500), Invoice(Date(2024, 3, 20), "Beta", 300)>>,
      <<Invoice(Date(2024, 3, 1), "Beta", 500), Invoice(Date(2024, 4, 2), "Ghost", 200)>> }

ReportMonths == {3, 4}

InitReport ==
    /\ clients \in ReportRosters
    /\ time_entries \in ReportEntries
    /\ invoices \in ReportInvoices
    /\ settings = Settings(8000, Weekdays)
    /\ non_work_days = <<NonWorkDay(Date(2024, 3, 1))>>
    /\ today = Date(2024, 3, 15)
    /\ scenario_entries = <<>>
    /\ adding_non_work = {}
    /\ settings_inputs = NoInputs
    /\ NoPage

ReportSelectMonth == SelectMonth(ReportMonths)

\* the dashboard after its chart: the hour-limit report on the time entries,
\* then the monthly breakdown by client
DashboardReports ==
    /\ pc = "done"
    /\ limit_data' = hour_limit_report(clients, time_entries, selected_year,
                                       selected_month)
    /\ breakdown' = monthly_breakdown(clients, time_entries, invoices,
                                      selected_year, selected_month)
    /\ pc' = "reports"
    /\ UNCHANGED <<clients, time_entries, invoices, settings, non_work_days, today,
                   selected_year, selected_month, work_days_count, stats, day,
                   cumulative_target, cumulative_actual, dates, targets, actuals,
                   hours_call, work_day_call, scenario_entries,
                   adding_non_work, settings_inputs>>

\* calculate_client_hours applied to a client name of the log, in the roster
\* or not, for the selected month
NameHours ==
    /\ pc = "idle"
    /\ time_entries # <<>>
    /\ \E i \in DOMAIN time_entries, lt \in {Str("Monthly"), Str("Contract Total")} :
        LET name == time_entries[i].client_name
        IN  hours_call' =
                [called |-> TRUE, client_name |-> name, limit_type |-> lt,
                 contract_start_date |-> DateStr(Date(2024, 1, 1)),
                 year |-> <<selected_year>>, month |-> <<selected_month>>,
                 result |-> calculate_client_hours(name, time_entries, lt,
                                DateStr(Date(2024, 1, 1)),
                                <<selected_year>>, <<selected_month>>)]
    /\ pc' = "hours"
    /\ UNCHANGED <<clients, time_entries, invoices, settings, non_work_days, today,
                   selected_year, selected_month, work_days_count, stats, day,
                   cumulative_target, cumulative_actual, dates, targets, actuals,
                   work_day_call, scenario_entries, limit_data, breakdown,
                   adding_non_work, settings_inputs>>

\* "Add to Scenario" on an empty scenario list
ReportAddToScenario == scenario_entries = <<>> /\ AddToScenario

NextReport ==
    \/ ReportSelectMonth
    \/ DashboardRender \/ ProjectionDay \/ ProjectionDone \/ DashboardReports
    \/ NameHours
    \/ ReportAddToScenario \/ ScenarioNoClients
    \/ ScenarioRender \/ ScenarioDay \/ ScenarioDone

SpecReport == InitReport /\ [][NextReport]_vars

----------------------------------------------------------------------------
(* Properties of the reports, under SpecReport                             *)

\* an hour-limit report is on the page
ReportShown == pc \in {"reports", "scenario_loop", "scenario_done"}

\* C21: a client whose has_hour_limit is false never appears in the hour-limit
\* report of the dashboard or of the scenario page, whatever its hour_limit
\* value, limit_type and logged hours.
C21_FlagOffNeverReported ==
    ReportShown =>
        \A i \in DOMAIN clients :
            ~clients[i].has_hour_limit =>
                \A k \in DOMAIN limit_data :
                    limit_data[k].client_name # clients[i].client_name

\* C21 happens: Beta has its limit switched off, a limit value of 10 and 12 h
\* logged in the month; the dashboard report has the one row of Acme
C21_Witness ==
    /\ pc = "reports"
    /\ selected_month = 3
    /\ Len(clients) = 2
    /\ clients[2].client_name = "Beta"
    /\ ~clients[2].has_hour_limit /\ clients[2].active
    /\ clients[2].hour_limit = 10 /\ clients[2].limit_type = Str("Monthly")
    /\ Len(time_entries) = 2
    /\ time_entries[1] = Entry(Date(2024, 3, 20), "Beta", 12)
    /\ Len(limit_data) = 1 /\ limit_data[1].client_name = "Acme"

\* the time entries whose client is a client of the roster with billing type
\* Hourly; every other entry is dangling or not billed
BilledRow(i) ==
    \E k \in DOMAIN clients :
        /\ clients[k].client_name = time_entries[i].client_name
        /\ clients[k].billing_type = "Hourly"
BilledRowsInMonth ==
    {i \in DOMAIN time_entries :
        BilledRow(i) /\ InWindow(time_entries[i].date, selected_year, selected_month)}
BilledRowsOn(d) == {i \in DOMAIN time_entries : BilledRow(i) /\ time_entries[i].date = d}

\* the positions of the entries that the limit of a client row counts
CountedRows(c) ==
    {i \in DOMAIN time_entries :
        /\ time_entries[i].client_name = c.client_name
        /\ IF c.limit_type = Str("Contract Total")
           THEN DateLE(c.contract_start_date.date[1], time_entries[i].date)
           ELSE InWindow(time_entries[i].date, selected_year, selected_month)}

\* C22: a time entry whose client_name matches no client of the roster, or a
\* non-Hourly client, is tolerated without error: it adds nothing to
\* hourly_income, total_hours and the cumulative-actual series, and its hours
\* are still counted by calculate_client_hours for that client name.
C22_DanglingEntriesTolerated ==
    /\ pc \in {"loop", "done", "reports"} =>
        /\ stats.hourly_income = BillableAt(time_entries, BilledRowsInMonth)
        /\ stats.total_hours = SumHoursAt(time_entries, BilledRowsInMonth)
        /\ \A k \in DOMAIN actuals :
              actuals[k] - ActualBefore(k) =
                  BillableAt(time_entries, BilledRowsOn(dates[k]))
                      + SumAmountAt(InvoiceRowsOn(dates[k]))
    /\ pc = "hours" =>
        /\ ~hours_call.result.raised
        /\ hours_call.result.value =
              SumHoursAt(time_entries,
                         CountedRows([client_name |-> hours_call.client_name,
                                      limit_type |-> hours_call.limit_type,
                                      contract_start_date |->
                                          hours_call.contract_start_date]))
    /\ pc = "reports" =>
        \A k \in DOMAIN limit_data :
            limit_data[k].hours_used =
                Return(SumHoursAt(time_entries,
                                  CountedRows(ClientNamed(limit_data[k].client_name))))

\* C22 happens: 6 h of "Ghost" (in no roster) and 6 h of the Retainer client
\* Beta on 1 March; no hourly income, no hours in the stats, and 6 h used in
\* the limit row of Beta
C22_Witness ==
    /\ pc = "reports"
    /\ selected_month = 3
    /\ time_entries = <<Entry(Date(2024, 3, 1), "Ghost", 6),
                        Entry(Date(2024, 3, 1), "Beta", 6)>>
    /\ Len(clients) = 2 /\ clients[1].client_name = "Acme"
    /\ clients[2].billing_type = "Retainer/Flat Fee" /\ clients[2].has_hour_limit
    /\ invoices = <<>>
    /\ stats.hourly_income = 0 /\ stats.total_hours = 0
    /\ actuals[Len(actuals)] = 0
    /\ limit_data[2].client_name = "Beta" /\ limit_data[2].hours_used = Return(6)

C28_LimitReportRows ==
    ReportShown =>
        /\ Len(limit_data) = Cardinality({i \in DOMAIN clients : HasLimit(clients[i])})
        /\ \A k \in DOMAIN limit_data :
            LET row == limit_data[k]
                c == ClientNamed(row.client_name)
                used == row.hours_used.value
            IN  /\ c.has_hour_limit /\ c.active
                /\ row.hours_remaining = c.hour_limit - used
                /\ row.percentage_used[2] > 0
                /\ IF c.hour_limit > 0
                   THEN row.percentage_used[1] * c.hour_limit
                            = used * 100 * row.percentage_used[2]
                   ELSE row.percentage_used = <<0, 1>>
                /\ row.status \in {"Critical", "Warning", "Good"}
                /\ row.status = "Critical" <=>
                        (c.hour_limit > 0 /\ used * 100 >= 90 * c.hour_limit)
                /\ row.status = "Warning" <=>
                        (/\ c.hour_limit > 0
                         /\ used * 100 >= 75 * c.hour_limit
                         /\ used * 100 < 90 * c.hour_limit)
                /\ c.hour_limit = 0 => row.status = "Good"

\* C28 happens: 48 h logged against a limit of 0: nothing remains (-48), the
\* usage is 0 % and the status Good
C28_Witness ==
    /\ pc = "reports"
    /\ selected_month = 3
    /\ Len(limit_data) = 2
    /\ limit_data[1].client_name = "Acme"
    /\ ClientNamed("Acme").hour_limit = 0
    /\ limit_data[1].hours_used = Return(48)
    /\ limit_data[1].hours_remaining = -48
    /\ limit_data[1].percentage_used = <<0, 1>>
    /\ limit_data[1].status = "Good"

\* the thresholds are met exactly: 36 h of 40 is 90 %, Critical, on the
\* scenario page 30 h + 6 h
C28_AtThreshold ==
    /\ ReportShown
    /\ Len(limit_data) = 1
    /\ limit_data[1].percentage_used = <<90, 1>>
    /\ limit_data[1].hours_remaining = 4
    /\ limit_data[1].status = "Critical"

----------------------------------------------------------------------------
(* Settings page                                                           *)

\* the values offered to the number input, and the options of the multiselect
\* that are clicked
SettingsTargets == {0, 8000, 9000}
SettingsDays == {"Monday", "Friday", "Saturday"}

\* save_settings followed by load_settings: the row written with
\* ','.join(work_days), read back; split_work_days undoes the join
save_settings(monthly_target, work_days) == Settings(monthly_target, work_days)

\* the widgets of a page that opens on `settings_`: value=float(monthly_target)
\* and default=current_work_days
settings_defaults(settings_) ==
    [monthly_target |-> settings_.monthly_target,
     work_days |-> split_work_days(settings_.work_days)]

InitSettings ==
    /\ clients = <<>> /\ time_entries = <<>> /\ invoices = <<>>
    /\ settings \in {Settings(8000, <<"Monday", "Friday">>), Settings(9000, <<"Saturday">>)}
    /\ non_work_days = <<>>
    /\ today = Date(2024, 3, 15)
    /\ scenario_entries = <<>>
    /\ adding_non_work = {}
    /\ settings_inputs = settings_defaults(settings)
    /\ NoPage

\* the number input is changed: the script reruns, nothing is written
SettingsSetTarget ==
    /\ \E monthly_target \in SettingsTargets :
          /\ monthly_target # settings_inputs.monthly_target
          /\ settings_inputs' = [settings_inputs EXCEPT !.monthly_target = monthly_target]
    /\ Rerun
    /\ UNCHANGED <<clients, time_entries, invoices, settings, non_work_days, today,
                   selected_year, selected_month, scenario_entries, adding_non_work>>

\* an option of the multiselect is added at the end of the selection, or taken
\* out of it: the script reruns, nothing is written
SettingsSetWorkDays ==
    /\ \E d \in SettingsDays :
          LET Other(x) == x # d
          IN  settings_inputs' =
                [settings_inputs EXCEPT !.work_days =
                    IF contains(settings_inputs.work_days, d)
                    THEN SelectSeq(settings_inputs.work_days, Other)
                    ELSE Append(settings_inputs.work_days, d)]
    /\ Rerun
    /\ UNCHANGED <<clients, time_entries, invoices, settings, non_work_days, today,
                   selected_year, selected_month, scenario_entries, adding_non_work>>

\* "Save Settings" without the test of the selection
SaveSettingsUnchecked ==
    /\ settings' = save_settings(settings_inputs.monthly_target,
                                 settings_inputs.work_days)
    /\ Rerun
    /\ UNCHANGED <<clients, time_entries, invoices, non_work_days, today,
                   selected_year, selected_month, scenario_entries, adding_non_work,
                   settings_inputs>>

\* "Save Settings": the inputs are written and the page reruns, or, with no
\* work day selected, the error is shown and nothing is written
SaveSettings ==
    IF settings_inputs.work_days # <<>>
    THEN /\ settings' = save_settings(settings_inputs.monthly_target,
                                      settings_inputs.work_days)
         /\ Rerun
         /\ UNCHANGED <<clients, time_entries, invoices, non_work_days, today,
                        selected_year, selected_month, scenario_entries,
                        adding_non_work, settings_inputs>>
    ELSE /\ RunTo("settings_error")
         /\ UNCHANGED <<clients, time_entries, invoices, settings, non_work_days,
                        today, selected_year, selected_month, scenario_entries,
                        adding_non_work, settings_inputs>>

NextSettings == SettingsSetTarget \/ SettingsSetWorkDays \/ SaveSettings

SpecSettings == InitSettings /\ [][NextSettings]_vars

\* C25: settings change only through an accepted "Save Settings", which writes
\* the inputs of the page; the persisted work_days list is never empty; a save
\* with no work day selected shows the error and leaves monthly_target and
\* work_days as they were.
C25_SettingsOnlyBySave ==
    /\ [](settings.work_days # <<>> /\ split_work_days(settings.work_days) # <<"">>)
    /\ [][settings' # settings =>
            /\ settings_inputs.work_days # <<>>
            /\ pc' = "idle"
            /\ settings'.monthly_target = settings_inputs.monthly_target
            /\ settings'.work_days = settings_inputs.work_days]_vars
    /\ [][(settings_inputs.work_days = <<>> /\ settings_inputs' = settings_inputs) =>
            /\ settings'.monthly_target = settings.monthly_target
            /\ settings'.work_days = settings.work_days]_vars
    /\ [][pc' = "settings_error" => settings_inputs.work_days = <<>>]_vars

\* C25 happens: after a save of (9000, Saturday, Monday) the selection is
\* emptied, the target set to 0 and "Save Settings" pressed: the error is
\* shown and the settings are those of the save before
C25_Witness ==
    /\ pc = "settings_error"
    /\ settings_inputs = [monthly_target |-> 0, work_days |-> <<>>]
    /\ settings = Settings(9000, <<"Saturday", "Monday">>)

----------------------------------------------------------------------------
(* Client management page.  The roster of these runs keeps the name column *)
(* as read_csv returns it: text, a number, or NaN.                         *)

\* a name cell that read_csv has parsed as a number; `text` is the numeral
\* that to_csv writes for it
Num(s) == [tag |-> "num", text |-> s, date |-> <<>>]

\* texts that read_csv reads as a missing value (from its default na_values),
\* and the names of the runs that it reads as numbers
NAValues == {"", "N/A", "NA", "NULL", "NaN", "n/a", "nan", "null"}
NumericNames == {"123"}

\* the names typed into "Client Name *"
ClientNameInputs == {"", "Acme", "123", "N/A"}

\* to_csv of a name cell: NaN is written as the empty field
to_csv_name(x) == IF x.tag = "NaN" THEN "" ELSE x.text

\* save_clients: the rows with the name column as written to clients.csv
save_clients(df) ==
    [i \in 1..Len(df) |-> [df[i] EXCEPT !.client_name = to_csv_name(df[i].client_name)]]

\* load_clients: pd.read_csv infers the name column; a na_values text is NaN,
\* and the column is numeric when every other field is a numeral
load_clients(file) ==
    LET present == {i \in DOMAIN file : file[i].client_name \notin NAValues}
        numeric ==
            /\ present # {}
            /\ \A i \in present : file[i].client_name \in NumericNames
    IN  [i \in 1..Len(file) |->
            [file[i] EXCEPT !.client_name =
                IF file[i].client_name \in NAValues THEN NaN
                ELSE IF numeric THEN Num(file[i].client_name)
                ELSE Str(file[i].client_name)]]

\* client_name in clients_df['client_name'].values: a str equals a text cell
\* with the same text, never a number or NaN
name_in_values(client_name, clients_df) ==
    \E i \in DOMAIN clients_df : clients_df[i].client_name = Str(client_name)

\* new_client of the "Add New Client" form
new_client(client_name, hourly_rate, billing_type, has_hour_limit, limit_type, hour_limit) ==
    [client_name |-> Str(client_name), hourly_rate |-> hourly_rate,
     billing_type |-> billing_type, active |-> TRUE,
     has_hour_limit |-> has_hour_limit,
     limit_type |-> Str(IF has_hour_limit THEN limit_type ELSE "None"),
     hour_limit |-> IF has_hour_limit THEN hour_limit ELSE 0,
     contract_start_date |-> DateStr(today)]

InitClients ==
    /\ clients = <<>>
    /\ time_entries = <<>> /\ invoices = <<>>
    /\ settings = Settings(8000, Weekdays)
    /\ non_work_days = <<>>
    /\ today = Date(2024, 3, 15)
    /\ scenario_entries = <<>>
    /\ adding_non_work = {}
    /\ settings_inputs = NoInputs
    /\ NoPage

\* "Add Client": the validation chain, then the row is appended, the roster
\* saved and the page rerun, which loads the file again
AddClient ==
    /\ Len(clients) < MaxClients
    /\ \E client_name \in ClientNameInputs, billing_type \in {"Hourly", "Retainer/Flat Fee"},
          has_hour_limit \in BOOLEAN, hour_limit \in {0, 40} :
          IF \/ client_name = ""
             \/ name_in_values(client_name, clients)
             \/ (has_hour_limit /\ hour_limit <= 0)
          THEN /\ RunTo("client_error")
               /\ UNCHANGED clients
          ELSE /\ clients' =
                    load_clients(save_clients(Append(clients,
                        new_client(client_name,
                                   IF billing_type = "Hourly" THEN 100 ELSE 0,
                                   billing_type, has_hour_limit, "Monthly",
                                   hour_limit))))
               /\ Rerun
    /\ UNCHANGED <<time_entries, invoices, settings, non_work_days, today,
                   selected_year, selected_month, scenario_entries,
                   adding_non_work, settings_inputs>>

\* "Save Changes" after an edit of the table (the Active or the Has Hour Limit
\* box of one row): the edited columns are copied back, the roster is saved
\* and the page rerun; the name column is locked in the editor
SaveChanges ==
    /\ \E i \in DOMAIN clients, col \in {"active", "has_hour_limit"} :
          clients' =
              load_clients(save_clients([clients EXCEPT ![i][col] = ~clients[i][col]]))
    /\ Rerun
    /\ UNCHANGED <<time_entries, invoices, settings, non_work_days, today,
                   selected_year, selected_month, scenario_entries,
                   adding_non_work, settings_inputs>>

NextClients == AddClient \/ SaveChanges

SpecClients == InitClients /\ [][NextClients]_vars

\* C24: after any sequence of "Add Client" submissions and client-table edits,
\* no two clients of the persisted roster share a name: a submission whose
\* name is empty or already in the roster file is rejected and leaves the
\* roster unchanged, and editing never changes a client name.
C24_ClientNamesUnique ==
    \A i, j \in DOMAIN clients :
        i # j => to_csv_name(clients[i].client_name) # to_csv_name(clients[j].client_name)

----------------------------------------------------------------------------
(* Calendar page: marking and unmarking non-work days                      *)

\* the days of the grid that are clicked: Mondays, a Tuesday and a Thursday
HolidayDates ==
    {Date(2024, 2, 26), Date(2024, 2, 29), Date(2024, 3, 4), Date(2024, 3, 5),
     Date(2024, 3, 11)}
HolidayMonths == {2, 3}

\* save_non_work_days: to_csv writes each date as '%Y-%m-%d' text
save_non_work_days(df) ==
    [i \in 1..Len(df) |-> [df[i] EXCEPT !.date = DateStr(df[i].date)]]

\* load_non_work_days: pd.to_datetime(df['date']).dt.date
load_non_work_days(file) ==
    [i \in 1..Len(file) |-> [file[i] EXCEPT !.date = to_datetime(file[i].date).value[1]]]

\* the grid's tests of a day: its name is in the work-day list of the
\* settings; the list has a row for its date
is_regular_work_day(date) ==
    contains(split_work_days(settings.work_days), day_name[weekday(date) + 1])
is_marked_non_work(date) ==
    non_work_days # <<>> /\ \E i \in DOMAIN non_work_days : non_work_days[i].date = date

\* the days of the grid of the selected month
OnGrid(date) == date.year = selected_year /\ date.month = selected_month

InitHolidays ==
    /\ clients = <<>> /\ time_entries = <<>> /\ invoices = <<>>
    /\ settings \in {Settings(8000, Weekdays), Settings(8000, <<"Monday", "Saturday">>)}
    /\ non_work_days \in {<<>>, <<NonWorkDay(Date(2024, 3, 5))>>}
    /\ today = Date(2024, 3, 15)
    /\ scenario_entries = <<>>
    /\ adding_non_work = {}
    /\ settings_inputs = NoInputs
    /\ NoPage

HolidaySelectMonth == SelectMonth(HolidayMonths)

\* a green day is clicked: its session key is set and the page reruns
ClickWorkDay ==
    /\ \E date \in HolidayDates :
          /\ OnGrid(date)
          /\ is_regular_work_day(date) /\ ~is_marked_non_work(date)
          /\ Cardinality(adding_non_work \cup {date}) <= MaxPending
          /\ adding_non_work' = adding_non_work \cup {date}
    /\ Rerun
    /\ UNCHANGED <<clients, time_entries, invoices, settings, non_work_days, today,
                   selected_year, selected_month, scenario_entries, settings_inputs>>

\* a gray day is clicked: its rows are taken out, the list is saved, the page
\* reruns and loads the file again
ClickMarkedDay ==
    /\ \E date \in HolidayDates :
          /\ OnGrid(date)
          /\ is_regular_work_day(date) /\ is_marked_non_work(date)
          /\ LET Other(r) == r.date # date
             IN  non_work_days' =
                    load_non_work_days(save_non_work_days(SelectSeq(non_work_days, Other)))
    /\ Rerun
    /\ UNCHANGED <<clients, time_entries, invoices, settings, today,
                   selected_year, selected_month, scenario_entries,
                   adding_non_work, settings_inputs>>

\* "Save" of a reason form that leaves the session key in place
SaveReasonKeepsKey ==
    /\ Len(non_work_days) < MaxNonWorkDays
    /\ \E date \in adding_non_work :
          non_work_days' =
              load_non_work_days(save_non_work_days(Append(non_work_days, NonWorkDay(date))))
    /\ Rerun
    /\ UNCHANGED <<clients, time_entries, invoices, settings, today,
                   selected_year, selected_month, scenario_entries,
                   adding_non_work, settings_inputs>>

\* "Save" of the reason form of a pending date: the row is appended, the list
\* saved, the session key deleted, and the page reruns
SaveReason ==
    /\ Len(non_work_days) < MaxNonWorkDays
    /\ \E date \in adding_non_work :
          /\ non_work_days' =
                load_non_work_days(save_non_work_days(Append(non_work_days, NonWorkDay(date))))
          /\ adding_non_work' = adding_non_work \ {date}
    /\ Rerun
    /\ UNCHANGED <<clients, time_entries, invoices, settings, today,
                   selected_year, selected_month, scenario_entries, settings_inputs>>

\* "Cancel" of a reason form: the session key is deleted, the page reruns
CancelReason ==
    /\ \E date \in adding_non_work : adding_non_work' = adding_non_work \ {date}
    /\ Rerun
    /\ UNCHANGED <<clients, time_entries, invoices, settings, non_work_days, today,
                   selected_year, selected_month, scenario_entries, settings_inputs>>

NextHolidays ==
    HolidaySelectMonth \/ ClickWorkDay \/ ClickMarkedDay \/ SaveReason \/ CancelReason

SpecHolidays == InitHolidays /\ [][NextHolidays]_vars

\* C23: starting from a non-work-day list without duplicate dates, after any
\* sequence of calendar-page operations of a session (click a work day, save
\* or cancel its reason form, click a marked holiday, several reason forms
\* pending at once) every date appears at most once in the persisted list; a
\* date with a pending form is never in the list.
C23_NonWorkDatesUnique ==
    /\ \A i, j \in DOMAIN non_work_days :
          i # j => non_work_days[i].date # non_work_days[j].date
    /\ \A date \in adding_non_work : ~is_marked_non_work(date)

\* C23 happens: with 5 March on file, 4 March and 29 February were clicked and
\* the form of 4 March saved, the form of 29 February still pending
C23_Witness ==
    /\ non_work_days = <<NonWorkDay(Date(2024, 3, 5)), NonWorkDay(Date(2024, 3, 4))>>
    /\ adding_non_work = {Date(2024, 2, 29)}

====
